---- MODULE Spec2Model ----
(***************************************************************************)
(* Drone parcel cabinet controller (python-module-drone).                  *)
(*                                                                         *)
(* Part I  : the cabinet session manager (services/machine_manager.py,     *)
(*           modbus_client.py connect/disconnect, web_api.py               *)
(*           get_machine_connection) as a multi-threaded state machine.    *)
(* Part II : the storage handshake, once as                                *)
(*           DroneStorageController.execute_storage_process and once as    *)
(*           the /storage/execute endpoint of web_api.py, together with    *)
(*           the door subsystem, against an arbitrary PLC.                 *)
(*           The user pickup, recycle and send runs                        *)
(*           (user_pickup_controller.py, user_send_controller.py) are      *)
(*           further entry points of the same machine.                     *)
(* Part III: the register primitives (modbus_client.py,                    *)
(*           base_controller.py) and the pickup-code functions, one call   *)
(*           at a time.                                                    *)
(*                                                                         *)
(* The controllers of drone_storage_controller.py,                         *)
(* user_pickup_controller.py and user_send_controller.py use the           *)
(* module-level name modbus_client without importing it.  client_bound     *)
(* says whether the name is bound when a run starts: FALSE is the source   *)
(* as written, where the first use raises NameError and the method's       *)
(* except clause returns its failure value; TRUE is a process in which     *)
(* the name is bound to the global client object of modbus_client.py:216,  *)
(* the object base_controller.py:10 and door_controller.py:10 bind under   *)
(* that name.                                                              *)
(***************************************************************************)
EXTENDS Integers, Sequences, FiniteSets, TLC

\* ------------------------------------------------------------------------
\* Bounds
\* ------------------------------------------------------------------------
NumThreads == 2
MaxCalls == 3
OpLen == 2
MaxSock == 3
MaxTime == 900

Threads == 1..NumThreads
DbMachines == {"A"}
Cabinets == {"default"} \cup DbMachines
ConnIds == 1..(2 * MaxCalls + 2)
WrapIds == ConnIds
SockIds == 1..MaxSock

\* machine_manager.py:113 and :217, seconds
CleanupInterval == 300
IdleThreshold == 600
\* granularity of the model's clock, seconds
TickStep == 900

VARIABLES
    \* ---- Part I: session manager
    dbcfg,        \* ConfigManager._db_configs: machine -> status, -1 = no row
    mapLock,      \* MachineManager._connection_lock: holder thread or 0
    connMap,      \* MachineManager._connections: name -> MachineConnection id, 0 = absent
    conn,         \* MachineConnection objects
    nConn,        \* number of MachineConnection objects allocated
    wrap,         \* ModbusClient objects: inner transport and is_connected
    nWrap,
    sock,         \* ModbusTcpClient transports: cabinet and TCP state
    nSock,
    now,          \* time.time()
    lastCleanup,  \* MachineManager._last_cleanup
    pc, kind, arg, cref, wref, left, todo, tnow, calls,
    acc,          \* history: register accesses this run has made on its transport
    foreign,      \* history: cabinets accessed by other threads during my run
    overlapSame,  \* history: two runs of one cabinet interleaved register accesses
    overlapDiff,  \* history: runs of two cabinets interleaved register accesses
    disturbed,    \* history: a running operation's transport was closed or replaced
    opres,        \* value the thread's operation returned: none, success, failure
    \* ---- Part II: storage handshake
    impl,           \* entry point that runs: controller, endpoint, door_open, door_close,
                    \* set_pickup_code, pickup, recycle, send
    client_bound,   \* the controller module's global name modbus_client is bound
    pickup_code,    \* argument of DroneStorageController.execute_storage_process
    pickup_code_first, pickup_code_last,  \* JSON fields of /storage/execute
    storage_status, \* content of the PLC's STORAGE_STATUS register
    spc,            \* position of the run
    stack,          \* return positions of the calls in progress
    rv,             \* value returned by the last call
    wreg, wexp,     \* register and expected value of the wait in progress
    wmode,          \* deadline: wait_for_register_value; range: a for-loop of the endpoint
    polls,          \* polls the wait in progress has made
    package_status, \* local package_status of the run
    position,       \* storage position returned with the result
    result,         \* none, success, failure
    log,            \* history: register writes, matched reads, waits, calls
    \* ---- Part III: register primitives and code functions, one call at a time
    fn,             \* the function that was called
    ppc,            \* position of the call
    timeout, check_interval, expected_values,  \* arguments of the wait, times in half seconds
    start_time,     \* local start_time of the wait
    clk,            \* time.time(), half seconds
    plc,            \* content of the register the call is about
    current_value,  \* local current_value of the wait
    ret,            \* value returned by the call
    npolls,         \* history: reads the wait has made
    nsleeps,        \* history: sleeps the wait has made
    reads,          \* history: values the reads of the wait returned
    is_connected, retry_count, max_retries,  \* ModbusClient fields, argument of the retry helper
    attempt,        \* loop variable of read/write_holding_register
    outer,          \* loop variable of read/write_register_with_retry
    tries,          \* history: outcomes of the transport attempts
    code_in,        \* argument of set_pickup_code / set_send_code
    writes,         \* history: register writes the code function attempted
    current_pickup_code  \* local current_pickup_code of get_pickup_verification_status

mvars == <<dbcfg, mapLock, connMap, conn, nConn, wrap, nWrap, sock, nSock, now,
           lastCleanup, pc, kind, arg, cref, wref, left, todo, tnow, calls,
           acc, foreign, overlapSame, overlapDiff, disturbed, opres>>

svars == <<impl, client_bound, pickup_code, pickup_code_first, pickup_code_last, storage_status, spc, stack,
           rv, wreg, wexp, wmode, polls, package_status, position, result, log>>

pvars == <<fn, ppc, timeout, check_interval, expected_values, start_time, clk, plc,
           current_value, ret, npolls, nsleeps, reads, is_connected, retry_count, max_retries,
           attempt, outer, tries, code_in, writes, current_pickup_code>>

vars == <<mvars, svars, pvars>>

\* ------------------------------------------------------------------------
\* Part I: configuration
\* ------------------------------------------------------------------------
DbStatus == {-1, 0, 1, 2}

\* ConfigManager.is_machine_available
is_machine_available(cfg, name) ==
    IF name = "default" THEN TRUE
    ELSE IF name \in DbMachines /\ cfg[name] # -1 THEN cfg[name] \in {1, 2}
    ELSE FALSE

\* ConfigManager.get_all_configs, the 'available' flag of every entry
AvailableAtInit(cfg) == {n \in Cabinets : n = "default" \/ (cfg[n] # -1 /\ is_machine_available(cfg, n))}

\* ------------------------------------------------------------------------
\* Part I: objects
\* ------------------------------------------------------------------------
NoConn == [name |-> "default", client |-> 0, lock |-> 0, last_used |-> 0,
           connection_count |-> 0, error_count |-> 0, last_error |-> "none"]
NoWrap == [sock |-> 0, connected |-> FALSE]
NoSock == [cab |-> "default", st |-> "none"]

\* MachineConnection.__init__
NewConnection(name, t) == [NoConn EXCEPT !.name = name, !.last_used = t]

\* the transport a ModbusClient would use for a register access right now
LiveSock(w) ==
    IF w # 0 /\ wrap[w].connected /\ wrap[w].sock # 0 /\ sock[wrap[w].sock].st = "open"
    THEN wrap[w].sock ELSE 0

OpenSocks(c) == {s \in SockIds : sock[s].st = "open" /\ sock[s].cab = c}

\* threads that are inside an operation run on wrapper w, other than t
RunningOn(w, t) == {u \in Threads \ {t} : pc[u] = "op" /\ kind[u] = "run" /\ wref[u] = w /\ w # 0}

\* ModbusClient.disconnect: close the inner transport if is_connected
WrapAfterDisconnect(w) == [wrap EXCEPT ![w].connected = FALSE]
SockAfterDisconnect(w) ==
    IF wrap[w].sock # 0 /\ wrap[w].connected /\ sock[wrap[w].sock].st = "open"
    THEN [sock EXCEPT ![wrap[w].sock].st = "closed"] ELSE sock

\* MachineConnection.disconnect (body under self._lock) on object cid
DiscWrap(cid) == IF conn[cid].client = 0 THEN wrap ELSE WrapAfterDisconnect(conn[cid].client)
DiscSock(cid) == IF conn[cid].client = 0 THEN sock ELSE SockAfterDisconnect(conn[cid].client)
\* a disconnect that closes the client but keeps the reference to it
DiscConnKeepsClient(cid) == conn
DiscConn(cid) == [conn EXCEPT ![cid].client = 0]
\* the disconnect takes a live transport away from an operation another thread is running
DiscDisturbs(cid, t) ==
    /\ conn[cid].client # 0
    /\ LiveSock(conn[cid].client) # 0
    /\ RunningOn(conn[cid].client, t) # {}

MinOf(S) == CHOOSE x \in S : \A y \in S : x <= y

\* entries of MachineManager._connections
Entries == {connMap[n] : n \in Cabinets} \ {0}

\* ------------------------------------------------------------------------
\* Part I: initial state (ConfigManager.__init__, MachineManager.__init__)
\* ------------------------------------------------------------------------
CabOrder == <<"default", "A">>

\* MachineManager._initialize_connections: ids handed out in dict order
InitIds(cfg, base) ==
    [n \in Cabinets |->
        IF n \notin AvailableAtInit(cfg) THEN 0
        ELSE base + Cardinality({i \in 1..Len(CabOrder) :
                 CabOrder[i] \in AvailableAtInit(cfg) /\
                 i <= (CHOOSE j \in 1..Len(CabOrder) : CabOrder[j] = n)})]

InitConn(cfg, base, old, t) ==
    [i \in ConnIds |->
        IF \E n \in Cabinets : InitIds(cfg, base)[n] = i
        THEN NewConnection(CHOOSE n \in Cabinets : InitIds(cfg, base)[n] = i, t)
        ELSE old[i]]

\* Part II at rest (no storage run in the session-manager specification)
\* no primitive call in progress
PrimIdle ==
    /\ fn = "none"
    /\ ppc = "done"
    /\ timeout = 0
    /\ check_interval = 1
    /\ expected_values = {}
    /\ start_time = 0
    /\ clk = 0
    /\ plc = 0
    /\ current_value = 0
    /\ ret = <<"None", 0>>
    /\ npolls = 0
    /\ nsleeps = 0
    /\ reads = <<>>
    /\ is_connected = TRUE
    /\ retry_count = 1
    /\ max_retries = 1
    /\ attempt = 0
    /\ outer = 0
    /\ tries = <<>>
    /\ code_in = <<>>
    /\ writes = <<>>
    /\ current_pickup_code = <<>>

StoIdle ==
    /\ impl = "none"
    /\ client_bound = TRUE
    /\ pickup_code = <<>>
    /\ pickup_code_first = <<>>
    /\ pickup_code_last = <<>>
    /\ storage_status = 0
    /\ spc = "done"
    /\ stack = <<>>
    /\ rv = FALSE
    /\ wreg = 0
    /\ wexp = 0
    /\ wmode = "deadline"
    /\ polls = 0
    /\ package_status = 0
    /\ position = 0
    /\ result = "none"
    /\ log = <<>>

InitMgr ==
    /\ StoIdle
    /\ PrimIdle
    /\ dbcfg \in [DbMachines -> DbStatus]
    /\ mapLock = 0
    /\ connMap = InitIds(dbcfg, 0)
    /\ conn = InitConn(dbcfg, 0, [i \in ConnIds |-> NoConn], 0)
    /\ nConn = Cardinality(AvailableAtInit(dbcfg))
    /\ wrap = [i \in WrapIds |-> NoWrap]
    /\ nWrap = 0
    /\ sock = [i \in SockIds |-> NoSock]
    /\ nSock = 0
    /\ now = 0
    /\ lastCleanup = 0
    /\ pc = [t \in Threads |-> "idle"]
    /\ kind = [t \in Threads |-> "none"]
    /\ arg = [t \in Threads |-> "default"]
    /\ cref = [t \in Threads |-> 0]
    /\ wref = [t \in Threads |-> 0]
    /\ left = [t \in Threads |-> 0]
    /\ todo = [t \in Threads |-> {}]
    /\ tnow = [t \in Threads |-> 0]
    /\ calls = 0
    /\ acc = [t \in Threads |-> 0]
    /\ foreign = [t \in Threads |-> {}]
    /\ overlapSame = FALSE
    /\ overlapDiff = FALSE
    /\ disturbed = FALSE
    /\ opres = [t \in Threads |-> "none"]

hist == <<acc, foreign, overlapSame, overlapDiff, opres>>
heap == <<conn, nConn, wrap, nWrap, sock, nSock>>
clock == <<now, lastCleanup>>

\* ------------------------------------------------------------------------
\* Part I: callers
\* ------------------------------------------------------------------------
Begin(t, k, c, p) ==
    /\ pc[t] = "idle"
    /\ calls < MaxCalls
    /\ calls' = calls + 1
    /\ kind' = [kind EXCEPT ![t] = k]
    /\ arg' = [arg EXCEPT ![t] = c]
    /\ pc' = [pc EXCEPT ![t] = p]
    /\ cref' = [cref EXCEPT ![t] = 0]
    /\ wref' = [wref EXCEPT ![t] = 0]
    /\ opres' = [opres EXCEPT ![t] = "none"]
    /\ UNCHANGED <<svars, pvars>>
    /\ UNCHANGED <<dbcfg, mapLock, connMap, heap, clock, left, todo, tnow, acc, foreign,
                   overlapSame, overlapDiff, disturbed>>

\* web_api.get_machine_connection(machine_name) followed by the operation's register traffic
StartRun(t) == \E c \in Cabinets : Begin(t, "run", c, "cleanup")
\* MachineManager.test_machine_connection -> get_machine_client
StartTest(t) == \E c \in Cabinets : Begin(t, "test", c, "cleanup")
\* MachineManager.disconnect_machine
StartDisconnect(t) == \E c \in Cabinets : Begin(t, "disconnect", c, "dm_lock")
\* MachineManager.disconnect_all
StartDisconnectAll(t) == Begin(t, "disconnect_all", "default", "da_lock")
\* MachineManager.refresh_connections
StartRefresh(t) == Begin(t, "refresh", "default", "rf_config")
\* MachineManager.get_machine_status
StartStatus(t) == \E c \in Cabinets : Begin(t, "status", c, "gs_lock")

\* ------------------------------------------------------------------------
\* Part I: MachineManager._cleanup_idle_connections
\* ------------------------------------------------------------------------
CleanupSkip(t) ==
    /\ pc[t] = "cleanup"
    /\ now - lastCleanup < CleanupInterval
    /\ pc' = [pc EXCEPT ![t] = "map_lock"]
    /\ tnow' = [tnow EXCEPT ![t] = now]
    /\ UNCHANGED <<svars, pvars>>
    /\ UNCHANGED <<dbcfg, mapLock, connMap, heap, clock, kind, arg, cref, wref, left, todo,
                   calls, hist, disturbed>>

CleanupBegin(t) ==
    /\ pc[t] = "cleanup"
    /\ ~(now - lastCleanup < CleanupInterval)
    /\ pc' = [pc EXCEPT ![t] = "cu_lock"]
    /\ tnow' = [tnow EXCEPT ![t] = now]
    /\ UNCHANGED <<svars, pvars>>
    /\ UNCHANGED <<dbcfg, mapLock, connMap, heap, clock, kind, arg, cref, wref, left, todo,
                   calls, hist, disturbed>>

CleanupLock(t) ==
    /\ pc[t] = "cu_lock"
    /\ mapLock = 0
    /\ mapLock' = t
    /\ todo' = [todo EXCEPT ![t] = {i \in Entries : tnow[t] - conn[i].last_used > IdleThreshold}]
    /\ pc' = [pc EXCEPT ![t] = "cu_loop"]
    /\ UNCHANGED <<svars, pvars>>
    /\ UNCHANGED <<dbcfg, connMap, heap, clock, kind, arg, cref, wref, left, tnow,
                   calls, hist, disturbed>>

\* one iteration of "for ...: connection.disconnect()" (cleanup and disconnect_all)
LoopDisconnect(t) ==
    /\ pc[t] \in {"cu_loop", "da_loop"}
    /\ todo[t] # {}
    /\ LET cid == MinOf(todo[t]) IN
        /\ conn[cid].lock = 0
        /\ wrap' = DiscWrap(cid)
        /\ sock' = DiscSock(cid)
        /\ conn' = DiscConn(cid)
        /\ disturbed' = (disturbed \/ DiscDisturbs(cid, t))
        /\ todo' = [todo EXCEPT ![t] = @ \ {cid}]
    /\ UNCHANGED <<svars, pvars>>
    /\ UNCHANGED <<dbcfg, mapLock, connMap, nConn, nWrap, nSock, clock, pc, kind, arg, cref,
                   wref, left, tnow, calls, hist>>

CleanupEnd(t) ==
    /\ pc[t] = "cu_loop"
    /\ todo[t] = {}
    /\ lastCleanup' = tnow[t]
    /\ mapLock' = 0
    /\ pc' = [pc EXCEPT ![t] = "map_lock"]
    /\ UNCHANGED <<svars, pvars>>
    /\ UNCHANGED <<dbcfg, connMap, heap, now, kind, arg, cref, wref, left, todo, tnow,
                   calls, hist, disturbed>>

\* ------------------------------------------------------------------------
\* Part I: MachineManager.get_connection / get_machine_client
\* ------------------------------------------------------------------------
\* MachineManager._create_connection: the entry after the lazy create, 0 = refused
CreatedId(name) ==
    IF connMap[name] # 0 THEN connMap[name]
    ELSE IF is_machine_available(dbcfg, name) THEN nConn + 1
    ELSE 0

Lookup(t) ==
    /\ pc[t] = "map_lock"
    /\ mapLock = 0
    /\ LET id == CreatedId(arg[t]) IN
        /\ cref' = [cref EXCEPT ![t] = id]
        /\ IF connMap[arg[t]] = 0 /\ id # 0
           THEN /\ connMap' = [connMap EXCEPT ![arg[t]] = id]
                /\ conn' = [conn EXCEPT ![id] = NewConnection(arg[t], now)]
                /\ nConn' = nConn + 1
           ELSE UNCHANGED <<connMap, conn, nConn>>
        /\ pc' = [pc EXCEPT ![t] = IF id = 0 THEN "idle" ELSE "cl_lock"]
        \* get_machine_client keeps _connection_lock while it calls get_client
        /\ mapLock' = IF id # 0 /\ kind[t] = "test" THEN t ELSE 0
    /\ UNCHANGED <<svars, pvars>>
    /\ UNCHANGED <<dbcfg, wrap, nWrap, sock, nSock, clock, kind, arg, wref, left, todo, tnow,
                   calls, hist, disturbed>>

\* MachineManager.get_connection, called by web_api.get_machine_connection
GetConnection(t) == kind[t] = "run" /\ Lookup(t)
\* MachineManager.get_machine_client up to the call of connection.get_client()
GetMachineClient(t) == kind[t] = "test" /\ Lookup(t)

\* MachineConnection.get_client: take self._lock, create the ModbusClient if there is none
ClientLock(t) ==
    /\ pc[t] = "cl_lock"
    /\ conn[cref[t]].lock = 0
    /\ IF conn[cref[t]].client = 0
       THEN /\ nWrap' = nWrap + 1
            /\ wrap' = [wrap EXCEPT ![nWrap + 1] = NoWrap]
            /\ conn' = [conn EXCEPT ![cref[t]].lock = t, ![cref[t]].client = nWrap + 1]
       ELSE /\ conn' = [conn EXCEPT ![cref[t]].lock = t]
            /\ UNCHANGED <<wrap, nWrap>>
    /\ pc' = [pc EXCEPT ![t] = "cl_connect"]
    /\ UNCHANGED <<svars, pvars>>
    /\ UNCHANGED <<dbcfg, mapLock, connMap, nConn, sock, nSock, clock, kind, arg, cref, wref,
                   left, todo, tnow, calls, hist, disturbed>>

\* ModbusClient.connect: a fresh ModbusTcpClient replaces self.client, the old one is not closed
ConnectWrap(w, s, ok) ==
    [wrap EXCEPT ![w].sock = s, ![w].connected = IF ok THEN TRUE ELSE @]
ConnectSock(name, s, ok) ==
    [sock EXCEPT ![s] = [cab |-> name, st |-> IF ok THEN "open" ELSE "failed"]]

\* a get_client that returns without leaving self._lock
ClientConnectKeepsLock(t) ==
    /\ pc[t] = "cl_connect"
    /\ nSock < MaxSock
    /\ \E ok \in BOOLEAN :
        LET cid == cref[t]
            w == conn[cid].client
            s == nSock + 1 IN
        /\ nSock' = s
        /\ wrap' = ConnectWrap(w, s, ok)
        /\ sock' = ConnectSock(conn[cid].name, s, ok)
        /\ disturbed' = (disturbed \/ (LiveSock(w) # 0 /\ RunningOn(w, t) # {}))
        /\ conn' = [conn EXCEPT
                      ![cid].last_used = IF ok THEN now ELSE @,
                      ![cid].connection_count = IF ok THEN @ + 1 ELSE @,
                      ![cid].error_count = IF ok THEN 0 ELSE @ + 1,
                      ![cid].last_error = IF ok THEN @ ELSE "connect_failed"]
        /\ mapLock' = IF kind[t] = "test" THEN 0 ELSE mapLock
        /\ wref' = [wref EXCEPT ![t] = IF ok THEN w ELSE 0]
        /\ left' = [left EXCEPT ![t] = IF ok /\ kind[t] = "run" THEN OpLen ELSE 0]
        /\ pc' = [pc EXCEPT ![t] = IF ~ok THEN "idle"
                                   ELSE IF kind[t] = "run" THEN "op" ELSE "gm_read"]
    /\ UNCHANGED <<svars, pvars>>
    /\ UNCHANGED <<dbcfg, connMap, nConn, nWrap, clock, kind, arg, cref, todo, tnow, calls, hist>>

\* MachineConnection.get_client after self.client.connect(), then the caller's check
ClientConnect(t) ==
    /\ pc[t] = "cl_connect"
    /\ nSock < MaxSock
    /\ \E ok \in BOOLEAN :
        LET cid == cref[t]
            w == conn[cid].client
            s == nSock + 1 IN
        /\ nSock' = s
        /\ wrap' = ConnectWrap(w, s, ok)
        /\ sock' = ConnectSock(conn[cid].name, s, ok)
        /\ disturbed' = (disturbed \/ (LiveSock(w) # 0 /\ RunningOn(w, t) # {}))
        /\ conn' = [conn EXCEPT
                      ![cid].lock = 0,
                      ![cid].last_used = IF ok THEN now ELSE @,
                      ![cid].connection_count = IF ok THEN @ + 1 ELSE @,
                      ![cid].error_count = IF ok THEN 0 ELSE @ + 1,
                      ![cid].last_error = IF ok THEN @ ELSE "connect_failed"]
        /\ mapLock' = IF kind[t] = "test" THEN 0 ELSE mapLock
        /\ wref' = [wref EXCEPT ![t] = IF ok THEN w ELSE 0]
        /\ left' = [left EXCEPT ![t] = IF ok /\ kind[t] = "run" THEN OpLen ELSE 0]
        /\ pc' = [pc EXCEPT ![t] = IF ~ok THEN "idle"
                                   ELSE IF kind[t] = "run" THEN "op" ELSE "gm_read"]
    /\ UNCHANGED <<svars, pvars>>
    /\ UNCHANGED <<dbcfg, connMap, nConn, nWrap, clock, kind, arg, cref, todo, tnow, calls, hist>>

\* one register read or write of a running operation through its ModbusClient
Access(t) ==
    /\ pc[t] = "op"
    /\ left[t] > 0
    /\ LET s == LiveSock(wref[t])
           real == s # 0
           others == {u \in Threads \ {t} : pc[u] = "op" /\ acc[u] > 0} IN
        /\ overlapSame' = (overlapSame \/ (real /\ acc[t] > 0 /\ arg[t] \in foreign[t]))
        /\ overlapDiff' = (overlapDiff \/ (real /\ acc[t] > 0 /\ foreign[t] \ {arg[t]} # {}))
        /\ IF left[t] = 1
           THEN /\ pc' = [pc EXCEPT ![t] = "idle"]
                /\ acc' = [acc EXCEPT ![t] = 0]
                /\ foreign' = [u \in Threads |->
                                 IF u = t THEN {}
                                 ELSE IF real /\ u \in others THEN foreign[u] \cup {arg[t]}
                                 ELSE foreign[u]]
                /\ wref' = [wref EXCEPT ![t] = 0]
           ELSE /\ acc' = [acc EXCEPT ![t] = IF real THEN @ + 1 ELSE @]
                /\ foreign' = [u \in Threads |->
                                 IF real /\ u \in others THEN foreign[u] \cup {arg[t]}
                                 ELSE foreign[u]]
                /\ UNCHANGED <<pc, wref>>
        /\ left' = [left EXCEPT ![t] = @ - 1]
        \* the operation returns True only if every register access went through
        /\ IF left[t] = 1
           THEN \E ok \in BOOLEAN :
                    opres' = [opres EXCEPT ![t] = IF ok /\ real /\ acc[t] = OpLen - 1
                                                  THEN "success" ELSE "failure"]
           ELSE UNCHANGED opres
    /\ UNCHANGED <<svars, pvars>>
    /\ UNCHANGED <<dbcfg, mapLock, connMap, heap, clock, kind, arg, cref, todo, tnow, calls,
                   disturbed>>

\* MachineManager.test_machine_connection: client.read_holding_registers(0, 1)
TestRead(t) ==
    /\ pc[t] = "gm_read"
    /\ pc' = [pc EXCEPT ![t] = "idle"]
    /\ wref' = [wref EXCEPT ![t] = 0]
    /\ UNCHANGED <<svars, pvars>>
    /\ UNCHANGED <<dbcfg, mapLock, connMap, heap, clock, kind, arg, cref, left, todo, tnow,
                   calls, hist, disturbed>>

\* ------------------------------------------------------------------------
\* Part I: disconnect_machine, disconnect_all, refresh_connections
\* ------------------------------------------------------------------------
TakeMapLock(t) ==
    /\ pc[t] \in {"dm_lock", "da_lock"}
    /\ mapLock = 0
    /\ mapLock' = t
    /\ todo' = [todo EXCEPT ![t] = IF pc[t] = "da_lock" THEN Entries ELSE {}]
    /\ pc' = [pc EXCEPT ![t] = IF pc[t] = "dm_lock" THEN "dm_body" ELSE "da_loop"]
    /\ UNCHANGED <<svars, pvars>>
    /\ UNCHANGED <<dbcfg, connMap, heap, clock, kind, arg, cref, wref, left, tnow,
                   calls, hist, disturbed>>

DisconnectMachine(t) ==
    /\ pc[t] = "dm_body"
    /\ IF connMap[arg[t]] # 0
       THEN LET cid == connMap[arg[t]] IN
            /\ conn[cid].lock = 0
            /\ wrap' = DiscWrap(cid)
            /\ sock' = DiscSock(cid)
            /\ conn' = DiscConn(cid)
            /\ disturbed' = (disturbed \/ DiscDisturbs(cid, t))
       ELSE UNCHANGED <<wrap, sock, conn, disturbed>>
    /\ mapLock' = 0
    /\ pc' = [pc EXCEPT ![t] = "idle"]
    /\ UNCHANGED <<svars, pvars>>
    /\ UNCHANGED <<dbcfg, connMap, nConn, nWrap, nSock, clock, kind, arg, cref, wref, left,
                   todo, tnow, calls, hist>>

\* a disconnect_all that returns without leaving self._connection_lock
DisconnectAllEndKeepsMapLock(t) ==
    /\ pc[t] = "da_loop"
    /\ todo[t] = {}
    /\ pc' = [pc EXCEPT ![t] = IF kind[t] = "refresh" THEN "rf_clear" ELSE "idle"]
    /\ UNCHANGED <<svars, pvars>>
    /\ UNCHANGED <<dbcfg, mapLock, connMap, heap, clock, kind, arg, cref, wref, left, todo, tnow,
                   calls, hist, disturbed>>

DisconnectAllEnd(t) ==
    /\ pc[t] = "da_loop"
    /\ todo[t] = {}
    /\ mapLock' = 0
    /\ pc' = [pc EXCEPT ![t] = IF kind[t] = "refresh" THEN "rf_clear" ELSE "idle"]
    /\ UNCHANGED <<svars, pvars>>
    /\ UNCHANGED <<dbcfg, connMap, heap, clock, kind, arg, cref, wref, left, todo, tnow,
                   calls, hist, disturbed>>

\* config_manager.refresh_config(): the cache takes whatever the database holds now
RefreshConfig(t) ==
    /\ pc[t] = "rf_config"
    /\ dbcfg' \in [DbMachines -> DbStatus]
    /\ pc' = [pc EXCEPT ![t] = "da_lock"]
    /\ UNCHANGED <<svars, pvars>>
    /\ UNCHANGED <<mapLock, connMap, heap, clock, kind, arg, cref, wref, left, todo, tnow,
                   calls, hist, disturbed>>

\* with self._connection_lock: self._connections.clear()
RefreshClear(t) ==
    /\ pc[t] = "rf_clear"
    /\ mapLock = 0
    /\ connMap' = [n \in Cabinets |-> 0]
    /\ pc' = [pc EXCEPT ![t] = "rf_init"]
    /\ UNCHANGED <<svars, pvars>>
    /\ UNCHANGED <<dbcfg, mapLock, heap, clock, kind, arg, cref, wref, left, todo, tnow,
                   calls, hist, disturbed>>

\* self._initialize_connections(): a new MachineConnection for every available machine
RefreshInit(t) ==
    /\ pc[t] = "rf_init"
    /\ mapLock = 0
    /\ connMap' = [n \in Cabinets |->
                     IF InitIds(dbcfg, nConn)[n] # 0 THEN InitIds(dbcfg, nConn)[n] ELSE connMap[n]]
    /\ conn' = InitConn(dbcfg, nConn, conn, now)
    /\ nConn' = nConn + Cardinality(AvailableAtInit(dbcfg))
    /\ pc' = [pc EXCEPT ![t] = "idle"]
    /\ UNCHANGED <<svars, pvars>>
    /\ UNCHANGED <<dbcfg, mapLock, wrap, nWrap, sock, nSock, clock, kind, arg, cref, wref, left,
                   todo, tnow, calls, hist, disturbed>>

\* with self._connection_lock: the entry's get_stats(), which takes no connection lock
GetMachineStatus(t) ==
    /\ pc[t] = "gs_lock"
    /\ mapLock = 0
    /\ pc' = [pc EXCEPT ![t] = "idle"]
    /\ UNCHANGED <<svars, pvars>>
    /\ UNCHANGED <<dbcfg, mapLock, connMap, heap, clock, kind, arg, cref, wref, left, todo, tnow,
                   calls, hist, disturbed>>

\* ------------------------------------------------------------------------
\* Part I: environment
\* ------------------------------------------------------------------------
Tick ==
    /\ now < MaxTime
    /\ now' = now + TickStep
    /\ UNCHANGED <<svars, pvars>>
    /\ UNCHANGED <<dbcfg, mapLock, connMap, heap, lastCleanup, pc, kind, arg, cref, wref, left,
                   todo, tnow, calls, hist, disturbed>>

\* the garbage collector finalizes a transport no ModbusClient refers to
Collect ==
    /\ \E s \in SockIds :
        /\ sock[s].st = "open"
        /\ \A w \in WrapIds : wrap[w].sock # s
        /\ sock' = [sock EXCEPT ![s].st = "closed"]
    /\ UNCHANGED <<svars, pvars>>
    /\ UNCHANGED <<dbcfg, mapLock, connMap, conn, nConn, wrap, nWrap, nSock, clock, pc, kind,
                   arg, cref, wref, left, todo, tnow, calls, hist, disturbed>>

NextMgr ==
    \/ \E t \in Threads :
        \/ StartRun(t) \/ StartTest(t) \/ StartDisconnect(t) \/ StartDisconnectAll(t)
        \/ StartRefresh(t)
        \/ CleanupSkip(t) \/ CleanupBegin(t) \/ CleanupLock(t) \/ LoopDisconnect(t)
        \/ CleanupEnd(t)
        \/ GetConnection(t) \/ GetMachineClient(t) \/ ClientLock(t) \/ ClientConnect(t)
        \/ Access(t) \/ TestRead(t)
        \/ TakeMapLock(t) \/ DisconnectMachine(t) \/ DisconnectAllEnd(t)
        \/ RefreshConfig(t) \/ RefreshClear(t) \/ RefreshInit(t)
        \/ StartStatus(t) \/ GetMachineStatus(t)
    \/ Tick
    \/ Collect

SpecMgr == InitMgr /\ [][NextMgr]_vars

\* ------------------------------------------------------------------------
\* Part I: claims
\* ------------------------------------------------------------------------

\* C1: two operation runs on the same cabinet name are serialized: no run makes a
\* register access between the first and the last register access of another run
\* on that cabinet.
C1_SameCabinetSerialized == ~overlapSame

\* C2: no lock is held for the duration of an operation: a thread inside its
\* operation's register traffic holds neither the manager's map lock nor any
\* connection lock, so runs on two different cabinets can overlap.
C2_RunningOperationHoldsNoLock ==
    \A t \in Threads :
        pc[t] = "op" => (mapLock # t /\ \A i \in ConnIds : conn[i].lock # t)

\* C2 witness: a run made a register access between two register accesses of a run
\* on another cabinet.
C2_Witness == overlapDiff

\* C3: while an operation is running against a cabinet's client, no other activity
\* closes or replaces the transport connection the operation is using.
C3_TransportOwnedByRunningOperation == ~disturbed

\* C4: each cabinet has at most one open TCP connection at any time.
C4_AtMostOneOpenConnection == \A c \in Cabinets : Cardinality(OpenSocks(c)) <= 1

\* ------------------------------------------------------------------------
\* Part II: register map and operation codes (config.py)
\* ------------------------------------------------------------------------
MaxPolls == 2

REGISTER_MAP ==
    [DOOR_CONTROL |-> 3000, LANDING_PAD_STATUS |-> 3001, DRONE_PACKAGE_OP |-> 3002,
     DRONE_SERVO |-> 3003, DRONE_STORE_POS |-> 3004, DRONE_PICKUP_POS |-> 3005,
     STORAGE_STATUS |-> 3006, SERVO_STATUS |-> 3008, PICKUP_CODE_FRONT |-> 3009,
     PICKUP_CODE_REAR |-> 3010, SYSTEM_STATUS |-> 3021,
     SEND_CODE_FRONT |-> 3024, SEND_CODE_REAR |-> 3025,
     PICKUP_POSITION |-> 3011, USER_PICKUP_OP |-> 3012, USER_RECYCLE_OP |-> 3013,
     USER_CONFIRM_RECYCLE |-> 3014, SEND_EMPTY_BOX_POS |-> 3015, USER_SEND_OP |-> 3016,
     SEND_BOX_POS |-> 3018, SEND_BOX_WEIGHT |-> 3019, SEND_STORAGE_STATUS |-> 3026]

OPERATION_CODES ==
    [DOOR_OPEN |-> 10, DOOR_CLOSE |-> 20, DOOR_OPEN_COMPLETE |-> 11, DOOR_CLOSE_COMPLETE |-> 21,
     DRONE_PRESENT |-> 10, DRONE_ABSENT |-> 20, DRONE_PRESENT_CONFIRM |-> 11,
     DRONE_ABSENT_CONFIRM |-> 21,
     STORE_PACKAGE |-> 110, STORE_COMPLETE |-> 111, PICKUP_IN_PROGRESS |-> 120,
     PICKUP_COMPLETE |-> 121, NO_PICKUP_COMPLETE |-> 122,
     SERVO_OPEN |-> 10, SERVO_CLOSE |-> 20, SERVO_OPEN_CONFIRM |-> 11,
     SERVO_CLOSE_CONFIRM |-> 21, SERVO_CAN_OPEN |-> 1, SERVO_CAN_CLOSE |-> 2,
     STORAGE_FULL |-> 10, STORAGE_AVAILABLE |-> 20,
     USER_PICKUP |-> 210, USER_PICKUP_COMPLETE |-> 211, USER_RECYCLE |-> 210,
     USER_RECYCLE_COMPLETE |-> 211, USER_SEND_EMPTY_BOX |-> 210, USER_SEND_COMPLETE |-> 211,
     USER_SEND_BOX_OPEN |-> 220]

POSITION_CODES == [POSITION_1 |-> 101, POSITION_2 |-> 102, POSITION_3 |-> 103,
                   POSITION_4 |-> 104, POSITION_5 |-> 105, POSITION_6 |-> 106]

\* a failed read: read_holding_register returns None
None == -1
\* what a 16-bit register can answer, cut down to the codes the protocol tells apart
RegValues == {0, 1, 2, 10, 11, 20, 21, 110, 111, 120, 121, 122, 101, 102, 103, 104,
              210, 211, 220}

\* ------------------------------------------------------------------------
\* Part II: pickup codes
\* ------------------------------------------------------------------------
DigitChars == <<"0", "1", "2", "3", "4", "5", "6", "7", "8", "9">>
IsDigitChar(c) == \E i \in 1..10 : DigitChars[i] = c
DigitVal(c) == (CHOOSE i \in 1..10 : DigitChars[i] = c) - 1
\* characters such as SUPERSCRIPT TWO: isdigit() is True of them, int() raises ValueError
SuperDigits == {"sup2"}
\* str.isdigit()
isdigit(str) ==
    Len(str) > 0 /\ \A i \in 1..Len(str) : (IsDigitChar(str[i]) \/ str[i] \in SuperDigits)
\* int(str) raises ValueError
IntRaises(str) == Len(str) = 0 \/ \E i \in 1..Len(str) : ~IsDigitChar(str[i])
\* int(str) of a string of decimal digits
RECURSIVE int(_)
int(str) == IF Len(str) = 0 THEN 0
            ELSE 10 * int(SubSeq(str, 1, Len(str) - 1)) + DigitVal(str[Len(str)])

Codes == {<<"1", "2", "3", "4", "5", "6">>, <<"1", "2", "3", "4", "5">>,
          <<"1", "2", "a", "4", "5", "6">>, <<>>}
Halves == {<<"1", "2", "3">>, <<"4", "5", "6">>, <<"a", "b", "c">>, <<>>}

\* ------------------------------------------------------------------------
\* Part II: the run as a stack machine
\* ------------------------------------------------------------------------
Ev(k, r, v) == <<k, r, v>>
Bit(b) == IF b THEN 1 ELSE 0


MgrIdle ==
    /\ dbcfg = [m \in DbMachines |-> 1]
    /\ mapLock = 0
    /\ connMap = InitIds(dbcfg, 0)
    /\ conn = InitConn(dbcfg, 0, [i \in ConnIds |-> NoConn], 0)
    /\ nConn = Cardinality(AvailableAtInit(dbcfg))
    /\ wrap = [i \in WrapIds |-> NoWrap]
    /\ nWrap = 0
    /\ sock = [i \in SockIds |-> NoSock]
    /\ nSock = 0
    /\ now = 0
    /\ lastCleanup = 0
    /\ pc = [t \in Threads |-> "idle"]
    /\ kind = [t \in Threads |-> "none"]
    /\ arg = [t \in Threads |-> "default"]
    /\ cref = [t \in Threads |-> 0]
    /\ wref = [t \in Threads |-> 0]
    /\ left = [t \in Threads |-> 0]
    /\ todo = [t \in Threads |-> {}]
    /\ tnow = [t \in Threads |-> 0]
    /\ calls = 0
    /\ acc = [t \in Threads |-> 0]
    /\ foreign = [t \in Threads |-> {}]
    /\ overlapSame = FALSE
    /\ overlapDiff = FALSE
    /\ disturbed = FALSE
    /\ opres = [t \in Threads |-> "none"]

InitSto ==
    /\ MgrIdle
    /\ PrimIdle
    /\ impl \in {"controller", "endpoint", "door_open", "door_close", "set_pickup_code",
                "pickup", "recycle", "send"}
    \* the three controller modules never import the name; a deployment may bind it
    /\ client_bound \in (IF impl \in {"controller", "pickup", "recycle", "send"}
                         THEN BOOLEAN ELSE {TRUE})
    /\ pickup_code \in (IF impl \in {"controller", "pickup", "send"} THEN Codes ELSE {<<>>})
    /\ pickup_code_first \in (IF impl \in {"endpoint", "set_pickup_code"} THEN Halves ELSE {<<>>})
    /\ pickup_code_last \in (IF impl \in {"endpoint", "set_pickup_code"} THEN Halves ELSE {<<>>})
    /\ storage_status \in {OPERATION_CODES.STORAGE_FULL, OPERATION_CODES.STORAGE_AVAILABLE, 11, 0}
    /\ spc = (IF impl = "controller" THEN "ctl_1"
              ELSE IF impl = "endpoint" THEN "api_0"
              ELSE IF impl = "set_pickup_code" THEN "api_set_code"
              ELSE IF impl = "pickup" THEN "pk_0"
              ELSE IF impl = "recycle" THEN "rc_0"
              ELSE IF impl = "send" THEN "sd_0"
              ELSE "door_api")
    /\ stack = <<>>
    /\ rv = FALSE
    /\ wreg = 0
    /\ wexp = 0
    /\ wmode = "deadline"
    /\ polls = 0
    /\ package_status = None
    /\ position = None
    /\ result = "none"
    /\ log = <<>>

inp == <<impl, client_bound, pickup_code, pickup_code_first, pickup_code_last, storage_status>>
wv == <<wreg, wexp, wmode, polls>>
Frame == UNCHANGED <<mvars, inp, pvars>>

R == REGISTER_MAP
OC == OPERATION_CODES

\* go on at position l
Go(l, events) ==
    /\ spc' = l
    /\ log' = log \o events
    /\ UNCHANGED <<stack, rv, wv, package_status, position, result>>

\* call the function at position f, come back at position back
Call(f, back, events) ==
    /\ spc' = f
    /\ stack' = <<back>> \o stack
    /\ log' = log \o events
    /\ UNCHANGED <<rv, wv, package_status, position, result>>

\* return v to the caller
Return(v, events) ==
    /\ spc' = Head(stack)
    /\ stack' = Tail(stack)
    /\ rv' = v
    /\ log' = log \o events
    /\ UNCHANGED <<wv, package_status, position, result>>

\* the run returns to its caller
Finish(res, pos, events) ==
    /\ spc' = "done"
    /\ stack' = <<>>
    /\ result' = res
    /\ position' = pos
    /\ log' = log \o events
    /\ UNCHANGED <<rv, wv, package_status>>

\* enter a poll loop on register r for value v, come back at position back
StartWait(r, v, mode, back, events) ==
    /\ spc' = "wait"
    /\ stack' = <<back>> \o stack
    /\ wreg' = r
    /\ wexp' = v
    /\ wmode' = mode
    /\ polls' = 0
    /\ log' = log \o events \o <<Ev("wait", r, v)>>
    /\ UNCHANGED <<rv, package_status, position, result>>

\* the log entry of a register write that succeeded (ok) or used up its retries
Wr(r, v, ok) == Ev(IF ok THEN "w" ELSE "wf", r, v)

\* ------------------------------------------------------------------------
\* Part II: ModbusClient.wait_for_register_value and the endpoint's for-loops
\* ------------------------------------------------------------------------
\* one poll: read the register, return on a match, else sleep and go round
WaitPoll ==
    /\ spc = "wait"
    /\ polls < MaxPolls
    /\ \E v \in RegValues \cup {None} :
        IF v = wexp
        THEN Return(TRUE, <<Ev("r", wreg, v)>>)
        ELSE /\ polls' = polls + 1
             /\ UNCHANGED <<spc, stack, rv, wreg, wexp, wmode, package_status, position,
                            result, log>>
    /\ Frame

\* a deadline wait that goes round until the value appears
WaitTimeoutRangeOnly ==
    /\ spc = "wait"
    /\ wmode = "range"
    /\ polls = MaxPolls
    /\ Return(FALSE, <<Ev("timeout", wreg, wexp)>>)
    /\ Frame

\* the deadline has passed (wait_for_register_value) or the range is used up (for-else)
WaitTimeout ==
    /\ spc = "wait"
    /\ IF wmode = "range" THEN polls = MaxPolls ELSE polls >= 1
    /\ Return(FALSE, <<Ev("timeout", wreg, wexp)>>)
    /\ Frame

\* ------------------------------------------------------------------------
\* Part II: door subsystem (door_controller.py)
\* ------------------------------------------------------------------------
\* check_connection, write the command, start the wait for its confirmation
DoorCommand(here, name, cmd, complete, back) ==
    /\ spc = here
    /\ \E connected \in BOOLEAN, ok \in BOOLEAN :
        IF ~connected THEN Return(FALSE, <<Ev(name, R.DOOR_CONTROL, cmd), Ev("door_ret", R.DOOR_CONTROL, 0)>>)
        ELSE IF ~ok THEN Return(FALSE, <<Ev(name, R.DOOR_CONTROL, cmd), Wr(R.DOOR_CONTROL, cmd, FALSE),
                                        Ev("door_ret", R.DOOR_CONTROL, 0)>>)
        ELSE StartWait(R.DOOR_CONTROL, complete, "deadline", back,
                       <<Ev(name, R.DOOR_CONTROL, cmd), Wr(R.DOOR_CONTROL, cmd, TRUE)>>)
    /\ Frame

\* DoorController.open_door up to the wait
open_door == DoorCommand("open_door", "open_door", OC.DOOR_OPEN, OC.DOOR_OPEN_COMPLETE, "door_end")
\* DoorController.close_door up to the wait
close_door == DoorCommand("close_door", "close_door", OC.DOOR_CLOSE, OC.DOOR_CLOSE_COMPLETE, "door_end")

\* open_door / close_door returning True whatever the wait gave
DoorEndIgnoresWait ==
    /\ spc = "door_end"
    /\ Return(TRUE, <<Ev("door_ret", R.DOOR_CONTROL, 1)>>)
    /\ Frame

\* open_door / close_door: return True if the wait matched, else False
DoorEnd ==
    /\ spc = "door_end"
    /\ Return(rv, <<Ev("door_ret", R.DOOR_CONTROL, Bit(rv))>>)
    /\ Frame

\* web_api.control_machine_door: get_machine_connection, then open or close
DoorApi ==
    /\ spc = "door_api"
    /\ \E got \in BOOLEAN :
        IF ~got THEN Finish("failure", None, <<>>)
        ELSE Call(IF impl = "door_open" THEN "open_door" ELSE "close_door", "door_api_end", <<>>)
    /\ Frame

DoorApiEnd ==
    /\ spc = "door_api_end"
    /\ Finish(IF rv THEN "success" ELSE "failure", None, <<>>)
    /\ Frame

\* ------------------------------------------------------------------------
\* Part II: DroneStorageController (drone_storage_controller.py)
\* ------------------------------------------------------------------------
\* a method whose last statement returns the outcome of its last wait
ReturnWait ==
    /\ spc = "ret"
    /\ Return(rv, <<>>)
    /\ Frame

\* write the landing-pad code, then wait for the cabinet's confirmation
LandingPad(here, code, confirm) ==
    /\ spc = here
    /\ \E ok \in BOOLEAN :
        \* an unbound modbus_client raises NameError, the method's except returns False
        IF ~client_bound THEN ok /\ Return(FALSE, <<>>)
        ELSE IF ~ok THEN Return(FALSE, <<Wr(R.LANDING_PAD_STATUS, code, FALSE)>>)
        ELSE StartWait(R.LANDING_PAD_STATUS, confirm, "deadline", "ret",
                       <<Wr(R.LANDING_PAD_STATUS, code, TRUE)>>)
    /\ Frame

confirm_drone_landing == LandingPad("landing", OC.DRONE_PRESENT, OC.DRONE_PRESENT_CONFIRM)
confirm_drone_takeoff == LandingPad("takeoff", OC.DRONE_ABSENT, OC.DRONE_ABSENT_CONFIRM)

\* control_servo: wait for the cabinet's permission
ServoPermission(here, can, next) ==
    /\ spc = here
    /\ StartWait(R.DRONE_SERVO, can, "deadline", next, <<>>)
    /\ Frame

\* control_servo: after the permission, write the command and wait for its confirmation
ServoCommand(here, cmd, confirm) ==
    /\ spc = here
    /\ IF ~rv THEN Return(FALSE, <<>>)
       ELSE \E ok \in BOOLEAN :
            IF ~ok THEN Return(FALSE, <<Wr(R.DRONE_SERVO, cmd, FALSE)>>)
            ELSE StartWait(R.DRONE_SERVO, confirm, "deadline", "ret", <<Wr(R.DRONE_SERVO, cmd, TRUE)>>)
    /\ Frame

control_servo_open == ServoPermission("servo_open", OC.SERVO_CAN_OPEN, "servo_open_2")
control_servo_open_2 == ServoCommand("servo_open_2", OC.SERVO_OPEN, OC.SERVO_OPEN_CONFIRM)
control_servo_close == ServoPermission("servo_close", OC.SERVO_CAN_CLOSE, "servo_close_2")
control_servo_close_2 == ServoCommand("servo_close_2", OC.SERVO_CLOSE, OC.SERVO_CLOSE_CONFIRM)

\* check_storage_capacity: True for 'available', False for 'full', None otherwise
check_storage_capacity(status) ==
    IF status = None THEN "None"
    ELSE IF status = OC.STORAGE_FULL THEN "False"
    ELSE IF status = OC.STORAGE_AVAILABLE THEN "True"
    ELSE "None"

\* get_storage_position: the position number of a position code, else None
get_storage_position(position_code) ==
    IF position_code = POSITION_CODES.POSITION_1 THEN 1
    ELSE IF position_code = POSITION_CODES.POSITION_2 THEN 2
    ELSE IF position_code = POSITION_CODES.POSITION_3 THEN 3
    ELSE None

\* step 1: check the capacity, step 2: open the door
Ctl1 ==
    /\ spc = "ctl_1"
    /\ \E status \in {storage_status, None} :
        IF check_storage_capacity(status) # "True"
        THEN Finish("failure", None, <<Ev("r", R.STORAGE_STATUS, status)>>)
        ELSE Call("open_door", "ctl_2", <<Ev("r", R.STORAGE_STATUS, status)>>)
    /\ Frame

\* a step 2 that goes on to the landing handshake whatever open_door returned
Ctl2IgnoresDoor ==
    /\ spc = "ctl_2"
    /\ Call("landing", "ctl_3", <<>>)
    /\ Frame

\* step 2 failed: return; else step 3: the landing handshake
Ctl2 ==
    /\ spc = "ctl_2"
    /\ IF ~rv THEN Finish("failure", None, <<>>)
       ELSE Call("landing", "ctl_3", <<>>)
    /\ Frame

\* step 3 failed: close the door and return; else step 4
Ctl3 ==
    /\ spc = "ctl_3"
    /\ IF ~rv THEN Call("close_door", "ctl_fail", <<>>)
       ELSE Go("ctl_4", <<>>)
    /\ Frame

\* steps 4 to 6 failed, or an exception: takeoff handshake, close the door, return
CtlRollback ==
    /\ spc = "ctl_rb"
    /\ Call("takeoff", "ctl_rb2", <<>>)
    /\ Frame

CtlRollback2 ==
    /\ spc = "ctl_rb2"
    /\ Call("close_door", "ctl_fail", <<>>)
    /\ Frame

CtlFail ==
    /\ spc = "ctl_fail"
    /\ Finish("failure", None, <<>>)
    /\ Frame

\* step 4: start_storage_operation writes the store-package command
Ctl4 ==
    /\ spc = "ctl_4"
    /\ \E ok \in BOOLEAN :
        Go(IF ok THEN "ctl_5" ELSE "ctl_rb", <<Wr(R.DRONE_PACKAGE_OP, OC.STORE_PACKAGE, ok)>>)
    /\ Frame

\* step 5: set_pickup_code checks the format and writes the two halves
Ctl5 ==
    /\ spc = "ctl_5"
    /\ IF Len(pickup_code) # 6 \/ ~isdigit(pickup_code) \/ IntRaises(pickup_code)
       THEN Go("ctl_rb", <<>>)
       ELSE LET front_three == int(SubSeq(pickup_code, 1, 3))
                rear_three == int(SubSeq(pickup_code, 4, 6))
            IN \E ok1 \in BOOLEAN, ok2 \in BOOLEAN :
                IF ~ok1 THEN Go("ctl_rb", <<Wr(R.PICKUP_CODE_FRONT, front_three, FALSE)>>)
                ELSE Go(IF ok2 THEN "ctl_6" ELSE "ctl_rb",
                        <<Wr(R.PICKUP_CODE_FRONT, front_three, TRUE),
                          Wr(R.PICKUP_CODE_REAR, rear_three, ok2)>>)
    /\ Frame

\* step 6: open the servo
Ctl6 ==
    /\ spc = "ctl_6"
    /\ Call("servo_open", "ctl_6r", <<>>)
    /\ Frame

Ctl6r ==
    /\ spc = "ctl_6r"
    /\ Go(IF rv THEN "ctl_7" ELSE "ctl_rb", <<>>)
    /\ Frame

\* step 7: one read of the package-operation register decides the branch
Ctl7 ==
    /\ spc = "ctl_7"
    /\ \E v \in RegValues \cup {None} :
        /\ package_status' = v
        /\ log' = log \o <<Ev("sleep", 0, 2), Ev("branch", R.DRONE_PACKAGE_OP, v)>>
        /\ IF v = OC.PICKUP_IN_PROGRESS
           THEN spc' = "servo_close" /\ stack' = <<"ctl_7a">> \o stack
           ELSE IF v = OC.NO_PICKUP_COMPLETE
           THEN spc' = "servo_close" /\ stack' = <<"ctl_7b">> \o stack
           ELSE spc' = "ctl_8" /\ stack' = stack
    /\ UNCHANGED <<rv, wv, position, result>>
    /\ Frame

\* branch 120: the servo is closed, wait for 'pickup complete'
Ctl7a ==
    /\ spc = "ctl_7a"
    /\ IF ~rv THEN Finish("failure", None, <<>>)
       ELSE StartWait(R.DRONE_PACKAGE_OP, OC.PICKUP_COMPLETE, "deadline", "ctl_7a2", <<>>)
    /\ Frame

Ctl7a2 ==
    /\ spc = "ctl_7a2"
    /\ IF ~rv THEN Finish("failure", None, <<>>)
       ELSE Go("ctl_8", <<>>)
    /\ Frame

\* branch 122: the servo is closed
Ctl7b ==
    /\ spc = "ctl_7b"
    /\ IF ~rv THEN Finish("failure", None, <<>>)
       ELSE Go("ctl_8", <<>>)
    /\ Frame

\* step 8: takeoff handshake
Ctl8 ==
    /\ spc = "ctl_8"
    /\ Call("takeoff", "ctl_8r", <<>>)
    /\ Frame

\* step 8 failed: return; else step 9: close the door
Ctl8r ==
    /\ spc = "ctl_8r"
    /\ IF ~rv THEN Finish("failure", None, <<>>)
       ELSE Call("close_door", "ctl_9r", <<>>)
    /\ Frame

\* a step 9 that goes on to step 10 whatever close_door returned
Ctl9rIgnoresDoor ==
    /\ spc = "ctl_9r"
    /\ \E position_code \in {None, POSITION_CODES.POSITION_1, POSITION_CODES.POSITION_3, 0} :
        Finish("success", get_storage_position(position_code),
               <<Ev("r", R.DRONE_STORE_POS, position_code)>>)
    /\ Frame

\* step 9 failed: return; else step 10: read the position and return success
Ctl9r ==
    /\ spc = "ctl_9r"
    /\ IF ~rv THEN Finish("failure", None, <<>>)
       ELSE \E position_code \in {None, POSITION_CODES.POSITION_1, POSITION_CODES.POSITION_3, 0} :
            Finish("success", get_storage_position(position_code),
                   <<Ev("r", R.DRONE_STORE_POS, position_code)>>)
    /\ Frame

\* ------------------------------------------------------------------------
\* Part II: the /storage/execute endpoint (web_api.execute_storage_process)
\* ------------------------------------------------------------------------
\* the request's code halves, the connection, step 1: open the door
Api0 ==
    /\ spc = "api_0"
    /\ IF pickup_code_first = <<>> \/ pickup_code_last = <<>>
       THEN Finish("failure", None, <<>>)
       ELSE \E got \in BOOLEAN :
            IF ~got THEN Finish("failure", None, <<>>)
            ELSE Call("open_door", "api_1", <<>>)
    /\ Frame

\* step 1 failed: return; else step 2: write 'drone present', poll for its confirmation
Api1 ==
    /\ spc = "api_1"
    /\ IF ~rv THEN Finish("failure", None, <<>>)
       ELSE \E ok \in BOOLEAN :
            StartWait(\hBB9, 11, "range", "api_2", <<Wr(\hBB9, 10, ok)>>)
    /\ Frame

\* steps 3 and 4: the store command and the two code halves, then the settle delay
Api2 ==
    /\ spc = "api_2"
    /\ IF ~rv THEN Finish("failure", None, <<>>)
       ELSE \E ok1 \in BOOLEAN, ok2 \in BOOLEAN, ok3 \in BOOLEAN :
            IF IntRaises(pickup_code_first)
            THEN /\ ok2 /\ ok3
                 /\ Finish("failure", None, <<Wr(\hBBA, 110, ok1)>>)
            ELSE IF IntRaises(pickup_code_last)
            THEN /\ ok3
                 /\ Finish("failure", None,
                           <<Wr(\hBBA, 110, ok1), Wr(\hBC0, int(pickup_code_first), ok2)>>)
            ELSE StartWait(\hBBB, 1, "range", "api_3",
                           <<Wr(\hBBA, 110, ok1), Wr(\hBC0, int(pickup_code_first), ok2),
                             Wr(\hBC1, int(pickup_code_last), ok3), Ev("sleep", 0, 40)>>)
    /\ Frame

\* step 5: on 'servo may open' write 'servo opened'; step 6: poll for its confirmation
Api3 ==
    /\ spc = "api_3"
    /\ IF ~rv THEN Finish("failure", None, <<>>)
       ELSE \E ok \in BOOLEAN :
            StartWait(\hBBB, 11, "range", "api_4", <<Wr(\hBBB, 10, ok)>>)
    /\ Frame

Api4 ==
    /\ spc = "api_4"
    /\ IF ~rv THEN Finish("failure", None, <<>>)
       ELSE /\ spc' = "api_branch"
            /\ polls' = 0
            /\ UNCHANGED <<stack, rv, wreg, wexp, wmode, package_status, position, result, log>>
    /\ Frame

\* step 8: poll the package-operation register until it reads 120 or 122
ApiBranchPoll ==
    /\ spc = "api_branch"
    /\ polls < MaxPolls
    /\ \E v \in RegValues \cup {None} :
        /\ package_status' = v
        /\ IF v = 120
           THEN /\ spc' = "wait"
                /\ stack' = <<"api_a2">> \o stack
                /\ wreg' = \hBBB
                /\ wexp' = 2
                /\ wmode' = "range"
                /\ polls' = 0
                /\ log' = log \o <<Ev("branch", \hBBA, v), Ev("wait", \hBBB, 2)>>
           ELSE IF v = 122
           THEN /\ spc' = "api_b1"
                /\ polls' = 0
                /\ log' = log \o <<Ev("branch", \hBBA, v)>>
                /\ UNCHANGED <<stack, wreg, wexp, wmode>>
           ELSE /\ polls' = polls + 1
                /\ UNCHANGED <<spc, stack, wreg, wexp, wmode, log>>
    /\ UNCHANGED <<rv, position, result>>
    /\ Frame

\* the 60 polls are used up
ApiBranchElse ==
    /\ spc = "api_branch"
    /\ polls = MaxPolls
    /\ Finish("failure", None, <<Ev("timeout", \hBBA, 0)>>)
    /\ Frame

\* branch 120: whatever the fork wait gave, settle, write 'servo closed', poll for confirmation
ApiA2 ==
    /\ spc = "api_a2"
    /\ \E ok \in BOOLEAN :
        StartWait(\hBBB, 21, "range", "api_a3", <<Ev("sleep", 0, 10), Wr(\hBBB, 20, ok)>>)
    /\ Frame

\* branch 120: whatever the confirmation wait gave, poll for 'pickup complete'
ApiA3 ==
    /\ spc = "api_a3"
    /\ StartWait(\hBBA, 121, "range", "api_a4", <<>>)
    /\ Frame

\* write 'drone absent' and poll for its confirmation
ApiTakeoff(here, next) ==
    /\ spc = here
    /\ IF ~rv THEN Finish("failure", None, <<>>)
       ELSE \E ok \in BOOLEAN :
            StartWait(\hBB9, 21, "range", next, <<Wr(\hBB9, 20, ok)>>)
    /\ Frame

\* after the takeoff confirmation: settle, close the door
ApiCloseDoor(here, next) ==
    /\ spc = here
    /\ IF ~rv THEN Finish("failure", None, <<>>)
       ELSE Call("close_door", next, <<Ev("sleep", 0, 10)>>)
    /\ Frame

\* the door is closed: read the result code and return success
ApiResult(here) ==
    /\ spc = here
    /\ IF ~rv THEN Finish("failure", None, <<>>)
       ELSE \E result_1 \in {None, POSITION_CODES.POSITION_1, POSITION_CODES.POSITION_3, 0} :
            Finish("success", result_1, <<Ev("r", \hBBC, result_1)>>)
    /\ Frame

ApiA4 == ApiTakeoff("api_a4", "api_a5")
ApiA5 == ApiCloseDoor("api_a5", "api_a6")
ApiA6 == ApiResult("api_a6")

\* branch 122: settle, write 'servo closed', poll for its confirmation
ApiB1 ==
    /\ spc = "api_b1"
    /\ \E ok \in BOOLEAN :
        StartWait(\hBBB, 21, "range", "api_b2", <<Ev("sleep", 0, 10), Wr(\hBBB, 20, ok)>>)
    /\ Frame

ApiB2 == ApiTakeoff("api_b2", "api_b3")
ApiB3 == ApiCloseDoor("api_b3", "api_b4")
ApiB4 == ApiResult("api_b4")

\* web_api.set_pickup_code (/pickup/set-code): write the two halves, results unchecked
ApiSetPickupCode ==
    /\ spc = "api_set_code"
    /\ IF pickup_code_first = <<>> \/ pickup_code_last = <<>>
       THEN Finish("failure", None, <<>>)
       ELSE \E got \in BOOLEAN, ok1 \in BOOLEAN, ok2 \in BOOLEAN :
            IF ~got THEN ok1 /\ ok2 /\ Finish("failure", None, <<>>)
            ELSE IF IntRaises(pickup_code_first) THEN ok1 /\ ok2 /\ Finish("failure", None, <<>>)
            ELSE IF IntRaises(pickup_code_last)
            THEN ok2 /\ Finish("failure", None, <<Wr(\hBC2, int(pickup_code_first), ok1)>>)
            ELSE Finish("success", None, <<Wr(\hBC2, int(pickup_code_first), ok1),
                                          Wr(\hBC3, int(pickup_code_last), ok2)>>)
    /\ Frame

\* ------------------------------------------------------------------------
\* Part II: user pickup, recycle and send runs
\* (user_pickup_controller.py, user_send_controller.py)
\* ------------------------------------------------------------------------
\* the next wait of a run, entered only if the wait before it matched
UserWait(here, r, v, back) ==
    /\ spc = here
    /\ IF rv THEN StartWait(r, v, "deadline", back, <<>>)
       ELSE Finish("failure", None, <<>>)
    /\ Frame

\* the run returns the outcome of its last wait
UserEnd(here) ==
    /\ spc = here
    /\ Finish(IF rv THEN "success" ELSE "failure", position, <<>>)
    /\ Frame

\* a position register is read after a wait: no position fails the run
UserPosition(here, r, lo, next) ==
    /\ spc = here
    /\ IF ~rv THEN Finish("failure", None, <<>>)
       ELSE \E position_code \in RegValues \cup {None} :
            IF position_code \in {POSITION_CODES.POSITION_1 + lo, POSITION_CODES.POSITION_2 + lo,
                                  POSITION_CODES.POSITION_3 + lo}
            THEN /\ spc' = next
                 /\ position' = position_code - 100
                 /\ log' = log \o <<Ev("r", r, position_code)>>
                 /\ UNCHANGED <<stack, rv, wv, package_status, result>>
            ELSE Finish("failure", None, <<Ev("r", r, position_code)>>)
    /\ Frame

\* UserPickupController.start_pickup_process
start_pickup_process ==
    \/ /\ spc = "pk_0"
       /\ IF Len(pickup_code) # 6 \/ ~isdigit(pickup_code) \/ ~client_bound
          THEN Finish("failure", None, <<>>)
          ELSE StartWait(R.USER_PICKUP_OP, OC.USER_PICKUP, "deadline", "pk_1", <<>>)
       /\ Frame
    \/ UserPosition("pk_1", R.PICKUP_POSITION, 0, "pk_2")
    \/ UserWait("pk_2", R.USER_PICKUP_OP, OC.USER_PICKUP_COMPLETE, "pk_3")
    \/ UserEnd("pk_3")

\* UserPickupController.start_recycle_process
start_recycle_process ==
    \/ /\ spc = "rc_0"
       /\ IF ~client_bound THEN Finish("failure", None, <<>>)
          ELSE StartWait(R.USER_RECYCLE_OP, OC.USER_RECYCLE, "deadline", "rc_1", <<>>)
       /\ Frame
    \/ UserWait("rc_1", R.USER_RECYCLE_OP, OC.USER_RECYCLE_COMPLETE, "rc_2")
    \/ UserWait("rc_2", R.USER_CONFIRM_RECYCLE, OC.USER_RECYCLE, "rc_3")
    \/ UserWait("rc_3", R.USER_CONFIRM_RECYCLE, OC.USER_RECYCLE_COMPLETE, "rc_4")
    \/ UserEnd("rc_4")

\* UserSendController.check_send_capacity: True for 10, False for 11, None otherwise
check_send_capacity(status) ==
    IF status = None THEN "None"
    ELSE IF status = 10 THEN "True"
    ELSE IF status = 11 THEN "False"
    ELSE "None"

\* UserSendController.execute_complete_send_process, steps 1 and 2
SendPrepare ==
    /\ spc = "sd_0"
    /\ \E status \in {10, 11, 0, None}, ok1 \in BOOLEAN, ok2 \in BOOLEAN :
        IF check_send_capacity(status) # "True"
        THEN ok1 /\ ok2 /\ Finish("failure", None, <<Ev("r", R.SEND_STORAGE_STATUS, status)>>)
        ELSE IF Len(pickup_code) # 6 \/ ~isdigit(pickup_code) \/ IntRaises(pickup_code)
                \/ ~client_bound
        THEN ok1 /\ ok2 /\ Finish("failure", None, <<Ev("r", R.SEND_STORAGE_STATUS, status)>>)
        ELSE IF ~ok1
        THEN ok2 /\ Finish("failure", None,
                           <<Ev("r", R.SEND_STORAGE_STATUS, status),
                             Wr(R.SEND_CODE_FRONT, int(SubSeq(pickup_code, 1, 3)), FALSE)>>)
        ELSE IF ~ok2
        THEN Finish("failure", None,
                    <<Ev("r", R.SEND_STORAGE_STATUS, status),
                      Wr(R.SEND_CODE_FRONT, int(SubSeq(pickup_code, 1, 3)), TRUE),
                      Wr(R.SEND_CODE_REAR, int(SubSeq(pickup_code, 4, 6)), FALSE)>>)
        ELSE StartWait(R.USER_SEND_OP, OC.USER_SEND_EMPTY_BOX, "deadline", "sd_1",
                       <<Ev("r", R.SEND_STORAGE_STATUS, status),
                         Wr(R.SEND_CODE_FRONT, int(SubSeq(pickup_code, 1, 3)), TRUE),
                         Wr(R.SEND_CODE_REAR, int(SubSeq(pickup_code, 4, 6)), TRUE)>>)
    /\ Frame

\* UserSendController.start_empty_box_pickup after its first wait
start_empty_box_pickup ==
    \/ UserPosition("sd_1", R.SEND_EMPTY_BOX_POS, 3, "sd_2")
    \/ UserWait("sd_2", R.USER_SEND_OP, OC.USER_SEND_COMPLETE, "sd_3")

\* UserSendController.start_send_box_storage and the return of the send run
start_send_box_storage ==
    \/ UserWait("sd_3", R.USER_SEND_OP, OC.USER_SEND_BOX_OPEN, "sd_4")
    \/ UserWait("sd_4", R.USER_SEND_OP, OC.USER_SEND_EMPTY_BOX, "sd_5")
    \/ UserWait("sd_5", R.USER_SEND_OP, OC.USER_SEND_COMPLETE, "sd_6")
    \/ UserEnd("sd_6")

\* ------------------------------------------------------------------------
\* Part II: specification
\* ------------------------------------------------------------------------
NextSto ==
    \/ WaitPoll \/ WaitTimeout
    \/ open_door \/ close_door \/ DoorEnd \/ DoorApi \/ DoorApiEnd
    \/ ReturnWait \/ confirm_drone_landing \/ confirm_drone_takeoff
    \/ control_servo_open \/ control_servo_open_2 \/ control_servo_close \/ control_servo_close_2
    \/ Ctl1 \/ Ctl2 \/ Ctl3 \/ CtlRollback \/ CtlRollback2 \/ CtlFail
    \/ Ctl4 \/ Ctl5 \/ Ctl6 \/ Ctl6r \/ Ctl7 \/ Ctl7a \/ Ctl7a2 \/ Ctl7b \/ Ctl8 \/ Ctl8r \/ Ctl9r
    \/ Api0 \/ Api1 \/ Api2 \/ Api3 \/ Api4 \/ ApiBranchPoll \/ ApiBranchElse
    \/ ApiA2 \/ ApiA3 \/ ApiA4 \/ ApiA5 \/ ApiA6 \/ ApiB1 \/ ApiB2 \/ ApiB3 \/ ApiB4
    \/ ApiSetPickupCode
    \/ start_pickup_process \/ start_recycle_process
    \/ SendPrepare \/ start_empty_box_pickup \/ start_send_box_storage

SpecSto == InitSto /\ [][NextSto]_vars

\* the thread that executes the run is scheduled as long as the run has a step to take
SpecStoFair == SpecSto /\ WF_vars(NextSto)

\* ------------------------------------------------------------------------
\* Part II: properties
\* ------------------------------------------------------------------------
Idx == 1..Len(log)
Has(e) == \E i \in Idx : log[i] = e
IsWrite(e) == e[1] \in {"w", "wf"}
StorageRun == impl \in {"controller", "endpoint"}
Returned(res) == spc = "done" /\ result = res
DoorOpened == Has(Ev("r", R.DOOR_CONTROL, OC.DOOR_OPEN_COMPLETE))
AbsentWrite(e) == IsWrite(e) /\ e[2] = R.LANDING_PAD_STATUS /\ e[3] = OC.DRONE_ABSENT
CloseAttempt(e) == e = Ev("close_door", R.DOOR_CONTROL, OC.DOOR_CLOSE)

\* C5: a storage run that returns a failure after the door has been opened has attempted the
\* rollback: it never returns such a failure having issued neither the landing 'absent'
\* write nor a door-close attempt.
C5_FailureAfterOpenRollsBack ==
    (StorageRun /\ Returned("failure") /\ DoorOpened)
        => \E i \in Idx : AbsentWrite(log[i]) \/ CloseAttempt(log[i])

\* C6: in a storage run against a cabinet whose storage-status register holds the 'full'
\* code, no register is ever written and the run does not succeed.
C6_FullMeansNoWrite ==
    (StorageRun /\ storage_status = OC.STORAGE_FULL)
        => /\ \A i \in Idx : ~IsWrite(log[i])
           /\ ~Returned("success")

DoorHandshake(k, name, cmd, complete) ==
    /\ k > 4
    /\ log[k - 4] = Ev(name, R.DOOR_CONTROL, cmd)
    /\ log[k - 3] = Ev("w", R.DOOR_CONTROL, cmd)
    /\ log[k - 2] = Ev("wait", R.DOOR_CONTROL, complete)
    /\ log[k - 1] = Ev("r", R.DOOR_CONTROL, complete)

\* C9: open_door / close_door return success exactly when they wrote OPEN / CLOSE and then
\* read OPEN-COMPLETE / CLOSE-COMPLETE before the deadline; a failed write or a passed
\* deadline gives failure.
C9_DoorSuccessIffHandshake ==
    \A k \in Idx :
        log[k][1] = "door_ret"
            => (log[k][3] = 1 <=>
                    \/ DoorHandshake(k, "open_door", OC.DOOR_OPEN, OC.DOOR_OPEN_COMPLETE)
                    \/ DoorHandshake(k, "close_door", OC.DOOR_CLOSE, OC.DOOR_CLOSE_COMPLETE))

\* C9 witness: open_door has returned success after its handshake, and close_door has
\* returned failure after its deadline passed.
C9_Witness ==
    /\ \E k \in Idx : /\ log[k] = Ev("door_ret", R.DOOR_CONTROL, 1)
                      /\ DoorHandshake(k, "open_door", OC.DOOR_OPEN, OC.DOOR_OPEN_COMPLETE)
    /\ \E k \in Idx : /\ k > 1
                      /\ log[k] = Ev("door_ret", R.DOOR_CONTROL, 0)
                      /\ log[k - 1] = Ev("timeout", R.DOOR_CONTROL, OC.DOOR_CLOSE_COMPLETE)

\* C10: a storage run whose door open timed out (OPEN written, OPEN-COMPLETE never read) has
\* issued exactly one door-close attempt when it returns.
C10_OneCloseAfterOpenTimeout ==
    (StorageRun /\ spc = "done" /\ Has(Ev("timeout", R.DOOR_CONTROL, OC.DOOR_OPEN_COMPLETE)))
        => Cardinality({i \in Idx : CloseAttempt(log[i])}) = 1

\* the first door call of a storage run is its open_door; it has returned False at k
OpenFailedAt(k) ==
    /\ log[k] = Ev("door_ret", R.DOOR_CONTROL, 0)
    /\ \A i \in 1..(k - 1) : log[i][1] # "door_ret"

\* C11: when the door open step of a storage run fails, nothing is written afterwards (no
\* landing-pad, package-operation, code or servo write, no door call) and the run does not
\* report success.
C11_FailedOpenNoFurtherAction ==
    StorageRun =>
        \A k \in Idx :
            OpenFailedAt(k)
                => /\ \A j \in Idx : j > k => (~IsWrite(log[j]) /\ log[j][1] # "close_door")
                   /\ ~Returned("success")

\* C11 witness: a storage run has returned failure after its open_door wrote OPEN and timed out.
C11_Witness ==
    /\ StorageRun
    /\ Returned("failure")
    /\ \E k \in Idx : /\ OpenFailedAt(k)
                      /\ k > 1
                      /\ log[k - 1] = Ev("timeout", R.DOOR_CONTROL, OC.DOOR_OPEN_COMPLETE)

\* ------------------------------------------------------------------------
\* Part III: bounds and inputs
\* ------------------------------------------------------------------------
MaxTimeout == 4
MaxReadDur == 1
MaxJitter == 1
MaxRetry == 3

\* timeout arguments in half seconds: none, one second, the longest
Timeouts == {0, 2, MaxTimeout}
\* what the polled register can hold
PlcValues == {0, 11, 122}
WaitFns == {"wait_for_register_value", "wait_for_status_change"}

\* every field of a call at rest except the arguments of the function that runs
PrimRest ==
    /\ start_time = 0
    /\ clk = 0
    /\ current_value = 0
    /\ ret = <<"None", 0>>
    /\ npolls = 0
    /\ nsleeps = 0
    /\ reads = <<>>
    /\ attempt = 0
    /\ outer = 0
    /\ tries = <<>>
    /\ writes = <<>>
    /\ current_pickup_code = <<>>

\* a call of wait_for_register_value or wait_for_status_change, start_time = time.time()
InitWait ==
    /\ fn \in WaitFns
    /\ ppc = "while"
    /\ timeout \in Timeouts
    /\ check_interval \in (IF fn = "wait_for_register_value" THEN {1} ELSE {1, 2})
    /\ expected_values \in (IF fn = "wait_for_register_value" THEN {{11}} ELSE {{11}, {11, 122}})
    /\ plc \in PlcValues
    /\ is_connected = TRUE
    /\ retry_count = 1
    /\ max_retries = 1
    /\ code_in = <<>>
    /\ PrimRest

uvars == <<fn, timeout, check_interval, expected_values, is_connected, retry_count, max_retries,
           code_in>>
PFrame == UNCHANGED <<mvars, svars, uvars>>

\* ------------------------------------------------------------------------
\* Part III: wait_for_register_value (modbus_client.py) and
\*           wait_for_status_change (base_controller.py)
\* ------------------------------------------------------------------------
expected_value == CHOOSE e \in expected_values : TRUE

\* the comparison of the loop body
Matches(v) ==
    IF fn = "wait_for_register_value" THEN v = expected_value
    ELSE v # None /\ v \in expected_values

\* what the wait returns on a match and after the loop
Matched(v) == IF fn = "wait_for_register_value" THEN <<"bool", 1>> ELSE <<"int", v>>
TimedOut == IF fn = "wait_for_register_value" THEN <<"bool", 0>> ELSE <<"None", 0>>

\* a loop test that gives up one tick before the deadline
WaitWhileEarly ==
    /\ fn \in WaitFns
    /\ ppc = "while"
    /\ IF clk - start_time < timeout - 1
       THEN ppc' = "read" /\ ret' = ret
       ELSE ppc' = "done" /\ ret' = TimedOut
    /\ UNCHANGED <<start_time, clk, plc, current_value, npolls, nsleeps, reads, attempt, outer,
                   tries, writes, current_pickup_code>>
    /\ PFrame

\* while time.time() - start_time < timeout
WaitWhile ==
    /\ fn \in WaitFns
    /\ ppc = "while"
    /\ IF clk - start_time < timeout
       THEN ppc' = "read" /\ ret' = ret
       ELSE ppc' = "done" /\ ret' = TimedOut
    /\ UNCHANGED <<start_time, clk, plc, current_value, npolls, nsleeps, reads, attempt, outer,
                   tries, writes, current_pickup_code>>
    /\ PFrame

\* a loop body that returns the timeout result as soon as a read fails
WaitReadAborts ==
    /\ fn \in WaitFns
    /\ ppc = "read"
    /\ \E v \in {plc, None}, d \in 0..MaxReadDur :
        /\ current_value' = v
        /\ clk' = clk + d
        /\ npolls' = npolls + 1
        /\ reads' = Append(reads, v)
        /\ IF Matches(v) THEN ppc' = "done" /\ ret' = Matched(v)
           ELSE IF v = None THEN ppc' = "done" /\ ret' = TimedOut
           ELSE ppc' = "sleep" /\ ret' = ret
    /\ UNCHANGED <<start_time, plc, nsleeps, attempt, outer, tries, writes, current_pickup_code>>
    /\ PFrame

\* the loop body: read the register (a failed read gives None), return on a match
WaitRead ==
    /\ fn \in WaitFns
    /\ ppc = "read"
    /\ \E v \in {plc, None}, d \in 0..MaxReadDur :
        /\ current_value' = v
        /\ clk' = clk + d
        /\ npolls' = npolls + 1
        /\ reads' = Append(reads, v)
        /\ IF Matches(v) THEN ppc' = "done" /\ ret' = Matched(v)
           ELSE ppc' = "sleep" /\ ret' = ret
    /\ UNCHANGED <<start_time, plc, nsleeps, attempt, outer, tries, writes, current_pickup_code>>
    /\ PFrame

\* time.sleep(0.5) / time.sleep(check_interval): at least the interval
WaitSleep ==
    /\ fn \in WaitFns
    /\ ppc = "sleep"
    /\ \E j \in 0..MaxJitter : clk' = clk + check_interval + j
    /\ nsleeps' = nsleeps + 1
    /\ ppc' = "while"
    /\ UNCHANGED <<start_time, plc, current_value, ret, npolls, reads, attempt, outer, tries,
                   writes, current_pickup_code>>
    /\ PFrame

\* the cabinet changes the register while the wait sleeps
PlcChange ==
    /\ fn \in WaitFns
    /\ ppc = "sleep"
    /\ plc' \in PlcValues \ {plc}
    /\ UNCHANGED <<ppc, start_time, clk, current_value, ret, npolls, nsleeps, reads, attempt,
                   outer, tries, writes, current_pickup_code>>
    /\ PFrame

WaitStep == WaitWhile \/ WaitRead \/ WaitSleep

\* ------------------------------------------------------------------------
\* Part III: read/write_holding_register (modbus_client.py) and
\*           read/write_register_with_retry (base_controller.py)
\* ------------------------------------------------------------------------
DirectFns == {"read_holding_register", "write_holding_register"}
RetryFns == {"read_register_with_retry", "write_register_with_retry"}
IoFns == DirectFns \cup RetryFns
IsWriteFn == fn \in {"write_holding_register", "write_register_with_retry"}
\* what one transport attempt can give: a response, an error response, a ModbusException
Outcomes == {"ok", "error", "exception"}

\* a call of one of the four functions
InitIo ==
    /\ fn \in IoFns
    /\ ppc = "io_check"
    /\ is_connected \in BOOLEAN
    /\ retry_count \in 1..MaxRetry
    /\ max_retries \in (IF fn \in RetryFns THEN {1, 2} ELSE {1})
    /\ plc \in PlcValues
    /\ timeout = 0
    /\ check_interval = 1
    /\ expected_values = {}
    /\ code_in = <<>>
    /\ PrimRest

IoOk(v) == IF IsWriteFn THEN <<"bool", 1>> ELSE <<"int", v>>
IoFail == IF IsWriteFn THEN <<"bool", 0>> ELSE <<"None", 0>>

\* if not self.is_connected: return None / False
IoCheck ==
    /\ fn \in IoFns
    /\ ppc = "io_check"
    /\ attempt' = 0
    /\ IF is_connected THEN ppc' = "io_try" /\ ret' = ret
       ELSE ppc' = "io_ret" /\ ret' = IoFail
    /\ UNCHANGED <<start_time, clk, plc, current_value, npolls, nsleeps, reads, outer, tries,
                   writes, current_pickup_code>>
    /\ PFrame

\* a loop that returns the failure after its first failed attempt
IoTryGivesUp ==
    /\ fn \in IoFns
    /\ ppc = "io_try"
    /\ attempt < retry_count
    /\ \E o \in Outcomes :
        /\ tries' = Append(tries, o)
        /\ ppc' = "io_ret"
        /\ ret' = IF o = "ok" THEN IoOk(plc) ELSE IoFail
        /\ UNCHANGED <<attempt, nsleeps>>
    /\ UNCHANGED <<start_time, clk, plc, current_value, npolls, reads, outer, writes, current_pickup_code>>
    /\ PFrame

\* for attempt in range(self.retry_count): one transport attempt
IoTry ==
    /\ fn \in IoFns
    /\ ppc = "io_try"
    /\ attempt < retry_count
    /\ \E o \in Outcomes :
        /\ tries' = Append(tries, o)
        /\ IF o = "ok"
           THEN /\ ppc' = "io_ret"
                /\ ret' = IoOk(plc)
                /\ UNCHANGED <<attempt, nsleeps>>
           ELSE /\ attempt' = attempt + 1
                /\ nsleeps' = IF o = "exception" /\ attempt < retry_count - 1
                              THEN nsleeps + 1 ELSE nsleeps
                /\ UNCHANGED <<ppc, ret>>
    /\ UNCHANGED <<start_time, clk, plc, current_value, npolls, reads, outer, writes, current_pickup_code>>
    /\ PFrame

\* the attempts are used up: return None / False
IoExhausted ==
    /\ fn \in IoFns
    /\ ppc = "io_try"
    /\ attempt = retry_count
    /\ ppc' = "io_ret"
    /\ ret' = IoFail
    /\ UNCHANGED <<start_time, clk, plc, current_value, npolls, nsleeps, reads, attempt, outer,
                   tries, writes, current_pickup_code>>
    /\ PFrame

\* the direct call returns; the retry helper returns a success or goes round
IoRet ==
    /\ fn \in IoFns
    /\ ppc = "io_ret"
    /\ IF fn \in DirectFns \/ ret # IoFail \/ outer + 1 >= max_retries
       THEN /\ ppc' = "done"
            /\ UNCHANGED <<outer, clk>>
       ELSE /\ ppc' = "io_check"
            /\ outer' = outer + 1
            /\ clk' = clk + 1
    /\ UNCHANGED <<start_time, plc, current_value, ret, npolls, nsleeps, reads, attempt, tries,
                   writes, current_pickup_code>>
    /\ PFrame

\* ------------------------------------------------------------------------
\* Part III: set_pickup_code, set_send_code, and the code written by user_pickup_auto
\*           as get_pickup_verification_status shows it
\* ------------------------------------------------------------------------
\* the length a code must have
CodeLen == 6
CodeChars == {"0", "7", "a", "sup2"}
SetCodeFns == {"set_pickup_code", "set_send_code"}
\* every string of six characters, and some that are shorter or longer
CodeInputs ==
    [1..CodeLen -> CodeChars] \cup [1..(CodeLen - 1) -> {"0", "7"}] \cup [1..(CodeLen + 1) -> {"0", "7"}]
    \cup {<<>>}

\* a call of set_pickup_code / set_send_code, or a code given to user_pickup_auto
InitCode ==
    /\ fn \in SetCodeFns \cup {"user_pickup_auto"}
    /\ ppc = "validate"
    /\ code_in \in CodeInputs
    /\ plc = 0
    /\ is_connected = TRUE
    /\ retry_count = 1
    /\ max_retries = 1
    /\ timeout = 0
    /\ check_interval = 1
    /\ expected_values = {}
    /\ PrimRest

front_three == int(SubSeq(code_in, 1, 3))
rear_three == int(SubSeq(code_in, 4, Len(code_in)))
\* the register a code function writes the front / rear half to
FrontRegister ==
    IF fn = "set_pickup_code" THEN R.PICKUP_CODE_FRONT
    ELSE IF fn = "set_send_code" THEN R.SEND_CODE_FRONT
    ELSE \hBC0
RearRegister ==
    IF fn = "set_pickup_code" THEN R.PICKUP_CODE_REAR
    ELSE IF fn = "set_send_code" THEN R.SEND_CODE_REAR
    ELSE \hBC1

\* f"{n:03d}"
Fmt03(n) ==
    IF n > 999 THEN <<DigitChars[(n \div 1000) + 1], DigitChars[((n \div 100) % 10) + 1],
                      DigitChars[((n \div 10) % 10) + 1], DigitChars[(n % 10) + 1]>>
    ELSE <<DigitChars[(n \div 100) + 1], DigitChars[((n \div 10) % 10) + 1],
           DigitChars[(n % 10) + 1]>>

CFrame == UNCHANGED <<start_time, clk, plc, current_value, npolls, nsleeps, reads, attempt,
                      outer, tries>>

\* a validation that does not check the length
SetCodeValidateDigitsOnly ==
    /\ fn \in SetCodeFns \cup {"user_pickup_auto"}
    /\ ppc = "validate"
    /\ IF ~isdigit(code_in) \/ IntRaises(code_in) \/ Len(code_in) < 4
       THEN ppc' = "done" /\ ret' = <<"bool", 0>>
       ELSE ppc' = "write_front" /\ ret' = ret
    /\ UNCHANGED <<writes, current_pickup_code>>
    /\ CFrame
    /\ PFrame

\* len(code) != 6 or not code.isdigit(): fail; int() of a half may raise: fail
SetCodeValidate ==
    /\ fn \in SetCodeFns \cup {"user_pickup_auto"}
    /\ ppc = "validate"
    /\ IF Len(code_in) # CodeLen \/ ~isdigit(code_in)
       THEN ppc' = "done" /\ ret' = <<"bool", 0>>
       ELSE IF IntRaises(SubSeq(code_in, 1, 3)) \/ IntRaises(SubSeq(code_in, 4, Len(code_in)))
       THEN ppc' = "done" /\ ret' = <<"bool", 0>>
       ELSE ppc' = "write_front" /\ ret' = ret
    /\ UNCHANGED <<writes, current_pickup_code>>
    /\ CFrame
    /\ PFrame

\* write the front half; set_pickup_code / set_send_code return False if the write fails
SetCodeFront ==
    /\ fn \in SetCodeFns \cup {"user_pickup_auto"}
    /\ ppc = "write_front"
    /\ \E ok \in BOOLEAN :
        /\ writes' = Append(writes, <<FrontRegister, front_three, Bit(ok)>>)
        /\ IF ok \/ fn = "user_pickup_auto"
           THEN ppc' = "write_rear" /\ ret' = ret
           ELSE ppc' = "done" /\ ret' = <<"bool", 0>>
    /\ UNCHANGED current_pickup_code
    /\ CFrame
    /\ PFrame

\* write the rear half
SetCodeRear ==
    /\ fn \in SetCodeFns \cup {"user_pickup_auto"}
    /\ ppc = "write_rear"
    /\ \E ok \in BOOLEAN :
        /\ writes' = Append(writes, <<RearRegister, rear_three, Bit(ok)>>)
        /\ IF fn \in SetCodeFns
           THEN ppc' = "done" /\ ret' = <<"bool", Bit(ok)>>
           ELSE IF ok /\ writes[1][3] = 1
           THEN ppc' = "verify" /\ ret' = ret
           ELSE ppc' = "done" /\ ret' = <<"bool", 0>>
    /\ UNCHANGED current_pickup_code
    /\ CFrame
    /\ PFrame

\* get_pickup_verification_status reads 0xBC0 and 0xBC1 and puts the code together
get_pickup_verification_status ==
    /\ fn = "user_pickup_auto"
    /\ ppc = "verify"
    /\ LET front == writes[1][2]
           back_three == writes[2][2] IN
       current_pickup_code' = IF front # 0 /\ back_three # 0
                              THEN Fmt03(front) \o Fmt03(back_three)
                              ELSE <<"None">>
    /\ ppc' = "done"
    /\ ret' = <<"bool", 1>>
    /\ UNCHANGED writes
    /\ CFrame
    /\ PFrame

\* ------------------------------------------------------------------------
\* Part III: the entry points that decide the storage capacity
\* ------------------------------------------------------------------------
CapacityFns == {"check_storage_capacity", "confirm_storage_start", "get_storage_capacity"}
StatusValues == {None, 0, 10, 11, 20, 30, 40}

\* a call of one of the entry points, the storage-status register holds plc
InitCapacity ==
    /\ fn \in CapacityFns
    /\ ppc = "read"
    /\ plc \in StatusValues
    /\ code_in = <<>>
    /\ is_connected = TRUE
    /\ retry_count = 1
    /\ max_retries = 1
    /\ timeout = 0
    /\ check_interval = 1
    /\ expected_values = {}
    /\ PrimRest

\* web_api.confirm_storage_start: 10 is full, 11 is available, anything else abnormal
confirm_storage_start(status) ==
    IF status = 10 THEN "full"
    ELSE IF status = 11 THEN "available"
    ELSE "abnormal"

\* SystemMonitor._parse_storage_status
parse_storage_status(status_code) ==
    IF status_code = OPERATION_CODES.STORAGE_AVAILABLE THEN "available"
    ELSE IF status_code = OPERATION_CODES.STORAGE_FULL THEN "full"
    ELSE IF status_code = 30 THEN "maintenance"
    ELSE IF status_code = 40 THEN "fault"
    ELSE "unknown"

\* SystemMonitor.get_storage_capacity, the general_storage entry: is_available and description
get_storage_capacity(general_status) ==
    IF general_status = None THEN "abnormal"
    ELSE IF general_status = OPERATION_CODES.STORAGE_AVAILABLE THEN "available"
    ELSE IF parse_storage_status(general_status) = "full" THEN "full"
    ELSE "abnormal"

\* the verdict of entry point f on a register value
CapacityVerdict(f, status) ==
    IF f = "check_storage_capacity"
    THEN (IF check_storage_capacity(status) = "True" THEN "available"
          ELSE IF check_storage_capacity(status) = "False" THEN "full"
          ELSE "abnormal")
    ELSE IF f = "confirm_storage_start" THEN confirm_storage_start(status)
    ELSE get_storage_capacity(status)

\* the entry point reads the register and returns its verdict
CapacityCall ==
    /\ fn \in CapacityFns
    /\ ppc = "read"
    /\ ret' = <<CapacityVerdict(fn, plc), 0>>
    /\ ppc' = "done"
    /\ UNCHANGED <<writes, current_pickup_code>>
    /\ CFrame
    /\ PFrame

\* ------------------------------------------------------------------------
\* Part III: specification
\* ------------------------------------------------------------------------
InitPrim ==
    /\ MgrIdle
    /\ StoIdle
    /\ (InitWait \/ InitIo \/ InitCode \/ InitCapacity)

NextPrim ==
    \/ WaitWhile \/ WaitRead \/ WaitSleep \/ PlcChange
    \/ IoCheck \/ IoTry \/ IoExhausted \/ IoRet
    \/ SetCodeValidate \/ SetCodeFront \/ SetCodeRear \/ get_pickup_verification_status
    \/ CapacityCall

SpecPrim == InitPrim /\ [][NextPrim]_vars

\* the wait takes its steps
SpecPrimFair == SpecPrim /\ WF_vars(WaitStep)

\* ------------------------------------------------------------------------
\* Part III: properties
\* ------------------------------------------------------------------------
PolledMatch(k) == Matches(reads[k])

\* C12: a failed read inside a wait never ends the wait: the timeout result is returned only
\* once the deadline has passed, and a poll that reads an expected value, whatever reads
\* failed before it, is the last poll and its match is what the wait returns.
C12_FailedReadKeepsPolling ==
    fn \in WaitFns =>
        /\ (ppc = "done" /\ ret = TimedOut) => clk - start_time >= timeout
        /\ \A k \in 1..Len(reads) :
            PolledMatch(k) => (k = Len(reads) /\ ppc = "done" /\ ret = Matched(reads[k]))

\* C12 witness: the first read failed, a later one matched, the wait returned the match.
C12_Witness ==
    /\ fn \in WaitFns
    /\ ppc = "done"
    /\ Len(reads) >= 2
    /\ reads[1] = None
    /\ PolledMatch(Len(reads))
    /\ ret = Matched(reads[Len(reads)])

\* the value the register held when the wait was called, as far as the wait could see it
FirstSeen == IF npolls = 0 THEN plc ELSE reads[1]

\* C13: a wait called on a register that already holds an expected value returns the match
\* on its first poll without a sleep, whatever timeout was passed.
C13_AlreadyMatchingReturnsAtOnce ==
    (fn \in WaitFns /\ ppc = "done" /\ FirstSeen \in expected_values)
        => (ret = Matched(FirstSeen) /\ npolls = 1 /\ nsleeps = 0)

\* C14: a wait whose reads never match ends, with the timeout result, not before the deadline
\* has passed; a wait never makes more than timeout/interval + 1 polls.
C14_NeverMatchingTimesOut ==
    /\ [](fn \in WaitFns =>
            /\ npolls * check_interval <= timeout + check_interval
            /\ (ppc = "done" /\ \A k \in 1..Len(reads) : ~PolledMatch(k))
                    => (ret = TimedOut /\ clk - start_time >= timeout))
    /\ (fn \in WaitFns => <>(ppc = "done"))

\* C14 witness: a wait with the longest timeout has polled more than once and timed out.
C14_Witness ==
    /\ fn \in WaitFns
    /\ ppc = "done"
    /\ timeout = MaxTimeout
    /\ npolls >= 2
    /\ ret = TimedOut

\* C15: on a connected client no transport attempt follows a successful one, the result of
\* that attempt is what is returned, and a failure is returned only after retry_count
\* attempts that all failed.
C15_FirstSuccessOrAllFailed ==
    (fn \in IoFns /\ is_connected) =>
        /\ \A i \in 1..Len(tries) : tries[i] = "ok" => i = Len(tries)
        /\ (ppc \in {"io_ret", "done"} /\ tries # <<>> /\ tries[Len(tries)] = "ok")
                => ret = IoOk(plc)
        /\ (ppc = "done" /\ ret = IoFail)
                => (Len(tries) >= retry_count /\ \A i \in 1..Len(tries) : tries[i] # "ok")

\* C15 witness: a call has returned the result of an attempt that followed a failed one.
C15_Witness ==
    /\ fn \in IoFns
    /\ is_connected
    /\ ppc = "done"
    /\ Len(tries) >= 2
    /\ tries[1] # "ok"
    /\ tries[Len(tries)] = "ok"
    /\ ret = IoOk(plc)

\* C16: a code of six decimal digits that was split into front and rear and put together
\* again from the two halves is the code that was given; both halves are in 0..999.
C16_SplitRecombineRoundTrip ==
    (fn = "user_pickup_auto" /\ ppc = "done" /\ ret = <<"bool", 1>>)
        => /\ current_pickup_code = code_in
           /\ \A i \in 1..Len(writes) : writes[i][2] \in 0..999

\* exactly six decimal digits
SixDigits(str) == Len(str) = CodeLen /\ \A i \in 1..Len(str) : IsDigitChar(str[i])

\* C17: set_pickup_code / set_send_code given anything but six decimal digits return failure
\* and attempt no register write.
C17_InvalidCodeWritesNothing ==
    (fn \in SetCodeFns /\ ~SixDigits(code_in))
        => /\ writes = <<>>
           /\ ppc = "done" => ret = <<"bool", 0>>

\* C17 witness: a code of six characters that isdigit() accepts and int() rejects was refused.
C17_Witness ==
    /\ fn \in SetCodeFns
    /\ ppc = "done"
    /\ Len(code_in) = CodeLen
    /\ isdigit(code_in)
    /\ ~SixDigits(code_in)
    /\ ret = <<"bool", 0>>
    /\ writes = <<>>

\* ------------------------------------------------------------------------
\* Part II: properties of the code a run is given
\* ------------------------------------------------------------------------
\* the code the run was given
RunCode == IF impl = "controller" THEN pickup_code ELSE pickup_code_first \o pickup_code_last

\* C18: a run given a code that is not exactly six ASCII digits writes no register at all.
C18_InvalidCodeRunWritesNothing ==
    (StorageRun /\ ~SixDigits(RunCode)) => \A i \in Idx : ~IsWrite(log[i])

HandshakeRegisters ==
    {R.DOOR_CONTROL, R.LANDING_PAD_STATUS, R.DRONE_PACKAGE_OP, R.DRONE_SERVO}

\* C19: every entry point given a valid code writes its halves to PICKUP_CODE_FRONT and
\* PICKUP_CODE_REAR: a write that is not part of the door, landing, package or servo
\* handshake is the front half to PICKUP_CODE_FRONT or the rear half to PICKUP_CODE_REAR.
C19_CodeRegistersAreTheDesignatedPair ==
    (impl \in {"controller", "endpoint", "set_pickup_code"} /\ SixDigits(RunCode))
        => \A i \in Idx :
            (IsWrite(log[i]) /\ log[i][2] \notin HandshakeRegisters)
                => \/ log[i][2] = R.PICKUP_CODE_FRONT /\ log[i][3] = int(SubSeq(RunCode, 1, 3))
                   \/ log[i][2] = R.PICKUP_CODE_REAR /\ log[i][3] = int(SubSeq(RunCode, 4, 6))

\* ------------------------------------------------------------------------
\* Part I: properties of the lookup
\* ------------------------------------------------------------------------
\* C20: get_connection / get_machine_client return the existing session of an available
\* cabinet or create one; for a cabinet that is unknown or disabled when the call is made
\* they return no session and add no entry to the map.
C20_LookupHonoursAvailability ==
    [][\A t \in Threads :
        (pc[t] = "map_lock" /\ pc'[t] # "map_lock")
            => IF is_machine_available(dbcfg, arg[t])
               THEN /\ cref'[t] # 0
                    /\ connMap'[arg[t]] = cref'[t]
                    /\ connMap[arg[t]] # 0 => cref'[t] = connMap[arg[t]]
               ELSE /\ cref'[t] = 0
                    /\ connMap' = connMap]_vars

\* ------------------------------------------------------------------------
\* Part I: properties of idle reclamation, health counters and teardown
\* ------------------------------------------------------------------------
\* the session the running step of thread t's reclamation loop disconnects
Reclaimed(t) == MinOf(todo[t])

\* C21: idle reclamation closes the connection of exactly the sessions whose last use is
\* older than the idle threshold, removes no entry from the session map, and leaves every
\* session used within the threshold as it was.
C21_ReclaimsExactlyIdleSessions ==
    [][\A t \in Threads :
        /\ (pc[t] = "cu_loop" /\ todo'[t] # todo[t])
            => /\ tnow[t] - conn[Reclaimed(t)].last_used > IdleThreshold
               /\ connMap' = connMap
               /\ \A i \in ConnIds \ {Reclaimed(t)} : conn'[i] = conn[i]
        /\ (pc[t] = "cu_loop" /\ pc'[t] # "cu_loop")
            => /\ connMap' = connMap
               /\ conn' = conn
               /\ \A i \in Entries :
                    tnow[t] - conn[i].last_used > IdleThreshold
                        => LiveSock(conn[i].client) = 0]_vars

\* C22: after every operation executed for a cabinet, whatever its outcome, the health
\* counters of the cabinet's session are updated: a successful operation leaves the error
\* streak at zero, a failed operation increments it and records the last error.
C22_OperationOutcomeUpdatesHealth ==
    [][\A t \in Threads :
        (pc[t] = "op" /\ pc'[t] = "idle")
            => /\ opres'[t] = "success" => conn'[cref[t]].error_count = 0
               /\ opres'[t] = "failure"
                    => /\ conn'[cref[t]].error_count = conn[cref[t]].error_count + 1
                       /\ conn'[cref[t]].last_error # "none"]_vars

\* MachineConnection.is_healthy on session object c; error_rate < 0.5 in integers
is_healthy(c) ==
    IF c.connection_count > 0
    THEN 2 * c.error_count < c.connection_count + c.error_count
    ELSE c.error_count < 5

\* C23: for every reachable pair of counters with at least one attempt, is_healthy() is
\* true exactly when error_count / (connection_count + error_count) is below 0.5.
C23_HealthyIffErrorRateBelowHalf ==
    \A i \in 1..nConn :
        conn[i].connection_count + conn[i].error_count > 0
            => (is_healthy(conn[i])
                    <=> 2 * conn[i].error_count < conn[i].connection_count + conn[i].error_count)

\* MachineConnection.get_stats, the 'connected' field, for session c and clients w
StatsConnected(c, w) == c.client # 0 /\ w[c.client].connected

\* the session object cid after a call of its disconnect(): no client, not connected,
\* and nothing at all changed if it had no client before
Disconnected(cid) ==
    /\ conn'[cid].client = 0
    /\ ~StatsConnected(conn'[cid], wrap')
    /\ conn[cid].client = 0 => (conn' = conn /\ wrap' = wrap /\ sock' = sock)

\* C24: disconnect_machine(name) leaves the cabinet's session without a client and not
\* connected, and so does disconnect_all for every session of the map; the entries stay in
\* the session map; a disconnect of a session that has no client changes nothing.
C24_DisconnectLeavesEntryNotConnected ==
    [][\A t \in Threads :
        /\ (pc[t] = "dm_body" /\ pc'[t] # "dm_body")
            => /\ connMap' = connMap
               /\ connMap[arg[t]] # 0 => Disconnected(connMap[arg[t]])
        /\ (pc[t] = "da_lock" /\ pc'[t] = "da_loop") => todo'[t] = Entries
        /\ (pc[t] = "da_loop" /\ todo'[t] # todo[t])
            => /\ connMap' = connMap
               /\ Disconnected(Reclaimed(t))
        /\ (pc[t] = "da_loop" /\ pc'[t] # "da_loop")
            => /\ todo[t] = {}
               /\ connMap' = connMap]_vars

\* a cabinet that was connected and then disconnected by disconnect_machine
C24_Witness ==
    \E t \in Threads :
        /\ kind[t] = "disconnect"
        /\ pc[t] = "idle"
        /\ connMap[arg[t]] # 0
        /\ conn[connMap[arg[t]]].connection_count > 0
        /\ conn[connMap[arg[t]]].client = 0
        /\ ~StatsConnected(conn[connMap[arg[t]]], wrap)

\* ------------------------------------------------------------------------
\* Part II: termination
\* ------------------------------------------------------------------------
\* C25: every operation run (storage run, pickup, recycle, send, door command) ends with a
\* result whatever the registers answer, reads that fail and values that never change
\* included: no wait of a run is without a bound.
C25_EveryRunTerminates == <>(spc = "done" /\ result # "none")

\* a run that came to its result although a wait never saw its value
C25_Witness ==
    /\ spc = "done"
    /\ result # "none"
    /\ impl \in {"controller", "endpoint", "pickup", "recycle", "send"}
    /\ \E i \in Idx : log[i][1] = "timeout"

\* ------------------------------------------------------------------------
\* Part I: the map lock
\* ------------------------------------------------------------------------
\* C26: the map lock is held only while the session map is looked up or changed: its
\* holder is never inside a TCP connection attempt to a cabinet nor inside the register
\* traffic of an operation.
C26_MapLockNotHeldDuringConnect ==
    \A t \in Threads : mapLock = t => pc[t] \notin {"cl_connect", "op", "gm_read"}

\* ------------------------------------------------------------------------
\* Part II: rollback, escalation and order of the storage run
\* ------------------------------------------------------------------------
\* a write that used up its retries or a wait whose deadline passed
StepFailed(e) == e[1] \in {"wf", "timeout"}

\* execute_storage_process leaves the main path at its first failed step; a later failed
\* step is a step of the rollback (landing 'absent' handshake, door close)
RollbackFailed ==
    /\ impl = "controller"
    /\ \E i \in Idx, j \in Idx :
        /\ i < j
        /\ StepFailed(log[i])
        /\ StepFailed(log[j])
        /\ log[j][2] \in {R.LANDING_PAD_STATUS, R.DOOR_CONTROL}

RollbackEvent(e) ==
    \/ AbsentWrite(e)
    \/ e = Ev("wait", R.LANDING_PAD_STATUS, OC.DRONE_ABSENT_CONFIRM)
    \/ (IsWrite(e) /\ e[2] = R.DOOR_CONTROL /\ e[3] = OC.DOOR_CLOSE)
    \/ e = Ev("wait", R.DOOR_CONTROL, OC.DOOR_CLOSE_COMPLETE)

\* C28: in a storage run nothing of the main path follows a register write that failed:
\* every later wait or write belongs to the rollback.
C28_FailedWriteEscalates ==
    StorageRun =>
        \A i \in Idx, j \in Idx :
            (i < j /\ log[i][1] = "wf" /\ (log[j][1] = "wait" \/ IsWrite(log[j])))
                => RollbackEvent(log[j])

\* registers the storage run writes the two halves of the pickup code to
CodeHalfRegisters == {R.PICKUP_CODE_FRONT, R.PICKUP_CODE_REAR, \hBC0, \hBC1}

\* the event e is in the log before position j
Before(j, e) == \E i \in Idx : i < j /\ log[i] = e

\* C29: the main-path steps of a storage run are strictly ordered: landing 'present' is
\* written only after door OPEN-COMPLETE was read; the store-package code only after
\* 'present-confirmed' was read; the code halves only after the store-package code was
\* written; servo 'opened' only after 'servo may open' was read.
C29_MainPathStrictlyOrdered ==
    StorageRun =>
        \A j \in Idx :
            IsWrite(log[j]) =>
                /\ (log[j][2] = R.LANDING_PAD_STATUS /\ log[j][3] = OC.DRONE_PRESENT)
                    => Before(j, Ev("r", R.DOOR_CONTROL, OC.DOOR_OPEN_COMPLETE))
                /\ (log[j][2] = R.DRONE_PACKAGE_OP /\ log[j][3] = OC.STORE_PACKAGE)
                    => Before(j, Ev("r", R.LANDING_PAD_STATUS, OC.DRONE_PRESENT_CONFIRM))
                /\ log[j][2] \in CodeHalfRegisters
                    => Before(j, Ev("w", R.DRONE_PACKAGE_OP, OC.STORE_PACKAGE))
                /\ (log[j][2] = R.DRONE_SERVO /\ log[j][3] = OC.SERVO_OPEN)
                    => Before(j, Ev("r", R.DRONE_SERVO, OC.SERVO_CAN_OPEN))

\* C30: in branch A of a storage run (branch read 120) the 'servo closed' code is written
\* to the servo register only after the fork-arrived value 2 was read from it; when that
\* value does not arrive in time the servo-close write is not issued.
C30_ServoCloseOnlyAfterForkArrived ==
    StorageRun =>
        \A i \in Idx, j \in Idx :
            (/\ i < j
             /\ log[i] = Ev("branch", R.DRONE_PACKAGE_OP, OC.PICKUP_IN_PROGRESS)
             /\ IsWrite(log[j])
             /\ log[j][2] = R.DRONE_SERVO
             /\ log[j][3] = OC.SERVO_CLOSE)
                => \E k \in Idx :
                    /\ i < k
                    /\ k < j
                    /\ log[k] = Ev("r", R.DRONE_SERVO, OC.SERVO_CAN_CLOSE)

\* ------------------------------------------------------------------------
\* Part II: takeoff, door close and success of the storage run
\* ------------------------------------------------------------------------
\* the landing 'absent' write at position j belongs to the main path: the rollbacks all
\* happen before the branch read
MainTakeoff(j) ==
    /\ AbsentWrite(log[j])
    /\ \E i \in Idx : i < j /\ log[i][1] = "branch"

\* a read of the package-operation register that showed a takeoff-permitted code
TakeoffPermitted(e) ==
    /\ e[1] \in {"r", "branch"}
    /\ e[2] = R.DRONE_PACKAGE_OP
    /\ e[3] \in {OC.PICKUP_COMPLETE, OC.NO_PICKUP_COMPLETE}

ServoCloseConfirmed(e) == e = Ev("r", R.DRONE_SERVO, OC.SERVO_CLOSE_CONFIRM)

\* C31: in both branches the main-path takeoff handshake (the write of landing 'absent')
\* starts only after a takeoff-permitted code was read from the package-operation
\* register, and that read follows the servo-close confirmation.
C31_TakeoffOnlyAfterPermission ==
    StorageRun =>
        \A j \in Idx :
            MainTakeoff(j)
                => \E m \in Idx, k \in Idx :
                    /\ m < k
                    /\ k < j
                    /\ ServoCloseConfirmed(log[m])
                    /\ TakeoffPermitted(log[k])

\* C33: the main-path takeoff write (landing 'absent') is issued only after the servo-close
\* confirmation (21 read from the servo register) was seen in the run: no path reaches
\* the takeoff with the servo never commanded closed or its closing unconfirmed.
C33_TakeoffOnlyAfterServoClosed ==
    StorageRun =>
        \A j \in Idx :
            MainTakeoff(j) => \E m \in Idx : m < j /\ ServoCloseConfirmed(log[m])

C36_SuccessOnlyAfterTakeoffAndClose ==
    (StorageRun /\ Returned("success"))
        => \E i \in Idx, j \in Idx :
            /\ i < j
            /\ log[i] = Ev("r", R.LANDING_PAD_STATUS, OC.DRONE_ABSENT_CONFIRM)
            /\ log[j] = Ev("r", R.DOOR_CONTROL, OC.DOOR_CLOSE_COMPLETE)

\* a storage run of each implementation can report success
C36_Witness ==
    /\ StorageRun
    /\ Returned("success")
    /\ Has(Ev("r", R.DOOR_CONTROL, OC.DOOR_CLOSE_COMPLETE))
    /\ Has(Ev("branch", R.DRONE_PACKAGE_OP, OC.NO_PICKUP_COMPLETE))

ValidCode ==
    Len(pickup_code) = CodeLen /\ \A i \in 1..Len(pickup_code) : IsDigitChar(pickup_code[i])
Cooperative ==
    /\ Has(Ev("r", R.STORAGE_STATUS, OC.STORAGE_AVAILABLE))
    /\ \A i \in Idx : log[i][1] \notin {"wf", "timeout"}
    /\ \A i \in Idx : (log[i][1] \in {"open_door", "close_door"} /\ i < Len(log))
                          => log[i + 1][1] = "w"
PositionReturned ==
    /\ Len(log) > 0
    /\ \E c \in RegValues \cup {None} :
        /\ log[Len(log)] = Ev("r", R.DRONE_STORE_POS, c)
        /\ position = get_storage_position(c)

\* C39: with capacity, a valid 6-digit code, every write succeeding and every handshake
\* answered in time, DroneStorageController.execute_storage_process eventually returns
\* success together with the position read from the store-position register.
C39_GoodRunSucceeds ==
    (impl = "controller" /\ ValidCode)
        => <>(spc = "done" /\ (Cooperative => (result = "success" /\ PositionReturned)))

\* ------------------------------------------------------------------------
\* Part III: retry budgets
\* ------------------------------------------------------------------------
\* C32: retry budgets are not compounded: one call of read_register_with_retry with
\* max_retries = n sends at most n read requests to the transport.
C32_RetryBudgetNotCompounded ==
    fn = "read_register_with_retry" => Len(tries) <= max_retries

\* ------------------------------------------------------------------------
\* Part I: connection state and lock order
\* ------------------------------------------------------------------------
\* C35: is_connected of a ModbusClient is true only if its most recent connect attempt
\* succeeded and no disconnect came after it; a session whose latest get_client failed
\* (its error streak is not zero) is not reported as connected by get_stats.
C35_FailedConnectNotReportedConnected ==
    \A i \in 1..nConn :
        conn[i].error_count > 0 => ~StatsConnected(conn[i], wrap)

\* the lock a thread is about to take: the map lock, a connection lock, or neither
WantsMapLock(t) ==
    pc[t] \in {"map_lock", "cu_lock", "dm_lock", "da_lock", "rf_clear", "rf_init", "gs_lock"}
WantsConnLock(t) ==
    IF pc[t] = "cl_lock" THEN cref[t]
    ELSE IF pc[t] \in {"cu_loop", "da_loop"} /\ todo[t] # {} THEN MinOf(todo[t])
    ELSE IF pc[t] = "dm_body" THEN connMap[arg[t]]
    ELSE 0
\* the thread that holds the lock t is waiting for, 0 if t is not waiting
WaitsFor(t) ==
    IF WantsMapLock(t) THEN mapLock
    ELSE IF WantsConnLock(t) # 0 THEN conn[WantsConnLock(t)].lock
    ELSE 0
\* the steps of one thread
ThreadStep(t) ==
    \/ CleanupSkip(t) \/ CleanupBegin(t) \/ CleanupLock(t) \/ LoopDisconnect(t)
    \/ CleanupEnd(t)
    \/ GetConnection(t) \/ GetMachineClient(t) \/ ClientLock(t) \/ ClientConnect(t)
    \/ Access(t) \/ TestRead(t)
    \/ TakeMapLock(t) \/ DisconnectMachine(t) \/ DisconnectAllEnd(t)
    \/ RefreshConfig(t) \/ RefreshClear(t) \/ RefreshInit(t)
    \/ GetMachineStatus(t)

\* C38: no interleaving of the manager's calls deadlocks: no set of threads wait for locks
\* held inside the set, no lock is held by a thread that has returned, and a thread in a call
\* that waits for no held lock can take its next step.
C38_NoDeadlock ==
    /\ \A D \in (SUBSET Threads) \ {{}} : \E t \in D : WaitsFor(t) \notin D
    /\ \A t \in Threads :
        pc[t] = "idle" => (mapLock # t /\ \A i \in ConnIds : conn[i].lock # t)
    /\ \A t \in Threads :
        (pc[t] # "idle" /\ WaitsFor(t) = 0) => ENABLED ThreadStep(t)

\* C38 witness: a thread inside get_machine_client holds the map lock and waits for a
\* connection lock that another thread holds inside get_client.
C38_Witness ==
    \E t \in Threads, u \in Threads :
        /\ t # u
        /\ mapLock = t
        /\ pc[t] = "cl_lock"
        /\ WaitsFor(t) = u
        /\ pc[u] = "cl_connect"

\* ------------------------------------------------------------------------
\* Part III: storage capacity verdicts
\* ------------------------------------------------------------------------
\* C40: check_storage_capacity, /storage/confirm-start and SystemMonitor.get_storage_capacity
\* compute the same available / full / abnormal verdict for every value of the
\* storage-status register: the verdict an entry point returned is the verdict of the others.
C40_CapacityVerdictsAgree ==
    (fn \in CapacityFns /\ ppc = "done")
        => \A g \in CapacityFns : CapacityVerdict(g, plc) = ret[1]

====
